---- MODULE Spec2Model ----
(***************************************************************************)
(* Model of the snap controller mode-lifecycle commands of                 *)
(* src/maascli/snappy.py: init, config, reconfigure-supervisord.           *)
(*                                                                         *)
(* Persistent state is the set of files the commands own: the mode file,   *)
(* the regiond.conf settings (MAASConfiguration), the RPC secret file and  *)
(* the rendered supervisord.conf, plus the pg_ctl-managed engine that      *)
(* init_db starts and stops.  One command runs at a time; its position is  *)
(* pc and its local variables are the fields of the invocation.            *)
(***************************************************************************)
EXTENDS Integers, Sequences, FiniteSets, TLC

\* ------------------------------------------------------------------ bounds
\* Longest sequence of lines typed on stdin for the prompts of one step.
MaxLines == 2
\* Most SIGINT/SIGTERM signals delivered to the parent of one fork.
MaxSignals == 2
\* Largest timeout, in seconds, wait_for_postgresql is called with.
MaxTimeout == 4
\* Longest time, in seconds, one run_sql takes.
MaxQueryTime == 2
\* The status polls of one reload are counted up to this number; the loop
\* itself goes on.
MaxPolls == 6
\* The writes of the spinner are counted up to this number.
MaxWrites == 3

\* ------------------------------------------------------------ value domains
None == "None"
EOF == "EOFError"
Absent == "absent"

Modes == {"none", "rack", "region", "region+rack", "all"}

\* A string supplied by the operator (flag value or typed line).
UserValue == "x"
\* Lines the operator can type at a prompt.
TypedLines == {"", "help", UserValue}

DefaultUrl == "http://localhost:5240/MAAS"
DbSocketDir == "postgres/sockets"
TestDbSocket == "test-db-socket"
RandomPass == "RANDOM10CH"

NoConfig == [k \in {} |-> None]

\* ----------------------------------------------------------- ConfigStore
\* config.get(key): None for a key that is not in the mapping.
ConfigGet(cfg, k) == IF k \in DOMAIN cfg THEN cfg[k] ELSE None

\* MAASConfiguration().update(partial): merge the batch over the stored
\* mapping in one write.
ConfigUpdate(cfg, partial) ==
    [k \in (DOMAIN cfg) \cup (DOMAIN partial) |->
        IF k \in DOMAIN partial THEN partial[k] ELSE cfg[k]]

\* ------------------------------------------------------------- ModeStore
\* str.strip() on the strings of the model: a mode name has no white space
\* around it, a line that ends with its newline loses it.
strip(s) ==
    CASE s = "none\n" -> "none"
      [] s = "rack\n" -> "rack"
      [] s = "region\n" -> "region"
      [] s = "region+rack\n" -> "region+rack"
      [] s = "all\n" -> "all"
      [] OTHER -> s

\* The mode file read: "none" when there is no file, else its contents
\* stripped.
get_current_mode(file) == IF file = Absent THEN "none" ELSE strip(file)

\* Variant: the file is opened for writing and nothing is written.
set_current_mode_Truncated(mode) == ""

\* The contents of the mode file after set_current_mode(mode).
set_current_mode(mode) == strip(mode)

\* ------------------------------------------------------------ supervisor
\* Variant: the rack role is switched on for region as well.
render_supervisord_RackdForRegion(mode) ==
    [postgresql |-> (mode = "all"),
     regiond    |-> (mode \in {"all", "region+rack", "region"}),
     rackd      |-> (mode \in {"all", "region+rack", "region", "rack"})]

render_supervisord(mode) ==
    [postgresql |-> (mode = "all"),
     regiond    |-> (mode \in {"all", "region+rack", "region"}),
     rackd      |-> (mode \in {"all", "region+rack", "rack"})]

\* ----------------------------------------------------------- SecretStore
\* Variant: an empty secret leaves an existing file in place.
set_rpc_secret_NoDelete(file, secret) ==
    IF secret # None /\ secret # "" THEN secret ELSE file

\* Contents of the secret file after set_rpc_secret(secret).
set_rpc_secret(file, secret) ==
    IF secret # None /\ secret # "" THEN secret ELSE Absent

\* --------------------------------------------------------------- prompts
\* Variant: the first typed line is the value, whatever it is.
required_prompt_FirstLine(lines, default) ==
    IF lines = <<>> THEN [value |-> EOF, rest |-> <<>>]
    ELSE [value |-> Head(lines), rest |-> Tail(lines)]

\* required_prompt(title, help_text, default) reading the typed lines in
\* order: an empty line takes the default when there is one, an empty value
\* or the token help asks again.  Running out of input is EOFError.
RECURSIVE required_prompt(_, _)
required_prompt(lines, default) ==
    IF lines = <<>> THEN [value |-> EOF, rest |-> <<>>]
    ELSE LET typed == Head(lines)
             value == IF typed = "" /\ default # None THEN default ELSE typed
         IN  IF value = "" \/ value = "help"
             THEN required_prompt(Tail(lines), default)
             ELSE [value |-> value, rest |-> Tail(lines)]

\* ---------------------------------------------------- DatabaseURIResolver
\* An integer option that was not given on the command line.
NoPort == -1

MAAS_TEST_DB_URI == "maas-test-db:///"
test_db_uri == "postgres:///maasdb?host=test-db-socket&user=maas"

UriFull == "postgres://x:x@x:5432/x"
UriUserOnly == "postgres:///?user=x"
UriNoUser == "postgres:///x"
UriSslmode == "postgres://x@x/x?sslmode=require"
UriBadPort == "postgres://x@x:port/x"
UriMysql == "mysql://x@x/x"
UriTwoExtras == "postgres://x@x/x?sslmode=require&connect_timeout=5"
UriUnknownParam == "postgres://x@x/x?foo=bar"
ModelUris ==
    {MAAS_TEST_DB_URI, UriFull, UriUserOnly, UriNoUser, UriSslmode,
     UriBadPort, UriMysql, UriTwoExtras, UriUnknownParam}

\* A variant that lets every scheme through.
StartsWithPostgres_AnyScheme(uri) == TRUE

\* database_uri.startswith("postgres://") on the URIs of the model.
StartsWithPostgres(uri) ==
    uri \in {test_db_uri, UriFull, UriUserOnly, UriNoUser, UriSslmode,
             UriBadPort, UriTwoExtras, UriUnknownParam}

\* psycopg2 parse_dsn on the URIs of the model: the keyword/value mapping,
\* or ProgrammingError.  libpq keeps the port as the string it found and
\* rejects a query parameter that is no connection option.
ProgrammingError == [error |-> "ProgrammingError"]
parse_dsn(uri) ==
    CASE uri = test_db_uri ->
            ("dbname" :> "maasdb" @@ "host" :> TestDbSocket @@ "user" :> "maas")
      [] uri = UriFull ->
            ("user" :> UserValue @@ "password" :> UserValue
             @@ "host" :> UserValue @@ "port" :> "5432"
             @@ "dbname" :> UserValue)
      [] uri = UriUserOnly -> ("user" :> UserValue)
      [] uri = UriNoUser -> ("dbname" :> UserValue)
      [] uri = UriSslmode ->
            ("user" :> UserValue @@ "host" :> UserValue
             @@ "dbname" :> UserValue @@ "sslmode" :> "require")
      [] uri = UriTwoExtras ->
            ("user" :> UserValue @@ "host" :> UserValue
             @@ "dbname" :> UserValue @@ "sslmode" :> "require"
             @@ "connect_timeout" :> "5")
      [] uri = UriBadPort ->
            ("user" :> UserValue @@ "host" :> UserValue
             @@ "port" :> "port" @@ "dbname" :> UserValue)
      [] OTHER -> ProgrammingError

\* int() on the port strings parse_dsn can return: the number, or
\* ValueError for a string that is no decimal number.
IsDecimal(s) == s \in {"5432"}
StrToInt(s) == CASE s = "5432" -> 5432 [] OTHER -> 0

\* A variant that overlooks --database-port.
using_deprecated_database_options_NoPort(options) ==
    \/ options.database_host # None
    \/ options.database_name # None
    \/ options.database_user # None
    \/ options.database_pass # None

using_deprecated_database_options(options) ==
    \/ options.database_host # None
    \/ options.database_name # None
    \/ options.database_user # None
    \/ options.database_pass # None
    \/ options.database_port # NoPort

DbError(kind, detail) ==
    [status |-> "DatabaseSettingsError", kind |-> kind, detail |-> detail,
     settings |-> NoConfig]
DbEOF == [status |-> EOF, kind |-> "", detail |-> {}, settings |-> NoConfig]
\* int(parsed_dsn["port"]) raised: no DatabaseSettingsError, no settings.
DbValueError ==
    [status |-> "ValueError", kind |-> "port", detail |-> {},
     settings |-> NoConfig]
DbOk(settings) ==
    [status |-> "ok", kind |-> "", detail |-> {}, settings |-> settings]

\* A variant that prompts only for a flag that was not given.
FlagOrPrompt_UnlessGiven(flag, lines) ==
    IF flag = None
    THEN required_prompt(lines, None)
    ELSE [value |-> flag, rest |-> lines]

\* The optional flag value, or the prompted one when the flag is falsy.
FlagOrPrompt(flag, lines) ==
    IF flag = None \/ flag = ""
    THEN required_prompt(lines, None)
    ELSE [value |-> flag, rest |-> lines]

DeprecatedSettings(options, lines) ==
    LET host == FlagOrPrompt(options.database_host, lines)
        name == FlagOrPrompt(options.database_name, host.rest)
        user == FlagOrPrompt(options.database_user, name.rest)
        pass == FlagOrPrompt(options.database_pass, user.rest)
        base == ("database_host" :> host.value
                 @@ "database_name" :> name.value
                 @@ "database_user" :> user.value
                 @@ "database_pass" :> pass.value)
    IN  IF EOF \in {host.value, name.value, user.value, pass.value}
        THEN DbEOF
        ELSE IF options.database_port # NoPort
             THEN DbOk(base @@ ("database_port" :> options.database_port))
             ELSE DbOk(base)

\* A variant that also lets sslmode through.
SupportedParams_WithSslmode ==
    {"user", "password", "host", "dbname", "port", "sslmode"}

\* The keywords of parse_dsn that get_database_settings accepts.
SupportedParams == {"user", "password", "host", "dbname", "port"}

UriSettings(database_uri0) ==
    IF database_uri0 # MAAS_TEST_DB_URI /\ ~StartsWithPostgres(database_uri0)
    THEN DbError("scheme", {})
    ELSE
    LET database_uri == IF database_uri0 = MAAS_TEST_DB_URI
                        THEN test_db_uri ELSE database_uri0
        parsed_dsn == parse_dsn(database_uri)
    IN  IF parsed_dsn = ProgrammingError
        THEN DbError("parse", {})
        ELSE
        LET unsupported_params == (DOMAIN parsed_dsn) \ SupportedParams
        IN  IF unsupported_params # {}
            THEN DbError("unsupported", unsupported_params)
            ELSE IF "user" \notin DOMAIN parsed_dsn
            THEN DbError("nouser", {})
            ELSE
            LET host == IF "host" \in DOMAIN parsed_dsn
                        THEN parsed_dsn["host"] ELSE "localhost"
                dbname == IF "dbname" \in DOMAIN parsed_dsn
                          THEN parsed_dsn["dbname"] ELSE parsed_dsn["user"]
                base == ("database_host" :> host
                         @@ "database_name" :> dbname
                         @@ "database_user" :> parsed_dsn["user"]
                         @@ "database_pass" :> ConfigGet(parsed_dsn, "password"))
            IN  IF "port" \in DOMAIN parsed_dsn
                THEN IF IsDecimal(parsed_dsn["port"])
                     THEN DbOk(base @@ ("database_port" :>
                                            StrToInt(parsed_dsn["port"])))
                     ELSE DbValueError
                ELSE DbOk(base)

\* get_database_settings(options): lines are the lines typed at its prompts,
\* socket_exists whether the maas-test-db socket file is on disk.
get_database_settings(options, lines, socket_exists) ==
    IF using_deprecated_database_options(options)
    THEN IF options.database_uri # None /\ options.database_uri # ""
         THEN DbError("conflict", {})
         ELSE DeprecatedSettings(options, lines)
    ELSE IF options.database_uri = None
         THEN LET default_uri == IF socket_exists
                                 THEN MAAS_TEST_DB_URI ELSE None
                  prompted == required_prompt(lines, default_uri)
              IN  IF prompted.value = EOF THEN DbEOF
                  ELSE UriSettings(prompted.value)
         ELSE UriSettings(options.database_uri)

\* ------------------------------------------------------------------ state
VARIABLES
    modeFile,           \* contents of $SNAP_COMMON/snap_mode, or Absent
    config,             \* the MAASConfiguration mapping
    secretFile,         \* contents of the secret file, or Absent
    supConf,            \* conf_vars of the rendered supervisord.conf
    engine,             \* the pg_ctl engine of init_db: "stopped"/"running"
    pc,                 \* position of the running command, "idle" if none
    inv,                \* the running command and the options it reads twice
    database_settings,  \* cmd_init.handle local
    maas_url,           \* cmd_init.handle local
    rpc_secret,         \* cmd_init.handle local
    ret,                \* where sighup_supervisord returns to
    outcome,            \* how the last command ended
    trace               \* side effects of the running/last command, in order

\* One call of run_with_drop_privileges, with the signals of its parent.
VARIABLES
    parent,             \* the forking process: position, effective user,
                        \* installed handlers, the handler in progress
    child,              \* the forked process: state, real user, wait status
    cmdRuns,            \* who executed cmd(*args): process and real user
    kills               \* the os.kill calls of the parent, in order

privVars == <<parent, child, cmdRuns, kills>>

\* One call of wait_for_postgresql, with the clock it reads.
VARIABLES
    wait                \* position, time.time(), end_time, the queries made

waitVars == <<wait>>

\* One call of sighup_supervisord, with the supervisor it signals.
VARIABLES
    reload,             \* position, the pid read, the polls made
    supervisor          \* the pid file, the process, what status prints

reloadVars == <<reload, supervisor>>

\* One call of perform_work: its two threads and the terminal line.
VARIABLES
    work,               \* the calling thread: position, cmd's outcome, evnt
    display             \* the thread of _write_msg and what it has written

workVars == <<work, display>>

\* One call of get_database_settings.
VARIABLES
    query,              \* the options, the typed lines, the socket file
    resolution            \* what the call returned or raised

resolverVars == <<query, resolution>>

\* One invocation of a command of the snap by some user.
VARIABLES
    command,            \* the command line, os.getuid(), the mode file, the tty
    handler             \* position in handle(), what it did, how it ended

commandVars == <<command, handler>>

\* The invocations of `config` that change settings, one after the other.
VARIABLES
    store,              \* the mode file, the ConfigStore and the secret file
    edit                \* the last invocation: its flags and what it did

configVars == <<store, edit>>

\* Two invocations of init that run at the same time.
VARIABLES
    inits,              \* each invocation: its position and its target mode
    writers             \* which invocation wrote the mode file, the
                        \* supervisor configuration and the settings last

raceVars == <<inits, writers>>

\* The variables of the units that are modelled on their own.
unitVars == <<privVars, waitVars, reloadVars, workVars, resolverVars,
              commandVars, configVars, raceVars>>

persistent == <<modeFile, config, secretFile, supConf, engine>>
locals == <<database_settings, maas_url, rpc_secret, ret>>
mainVars == <<modeFile, config, secretFile, supConf, engine, pc, inv,
              database_settings, maas_url, rpc_secret, ret, outcome, trace>>
vars == <<mainVars, unitVars>>

NoInv == [cmd |-> "", mode |-> "none", force |-> FALSE,
          current_mode |-> "none"]

\* The state after installation: nothing persisted, the supervisor
\* configuration rendered by `config --render` for mode none.
MainInit ==
    /\ modeFile = Absent
    /\ config = NoConfig
    /\ secretFile = Absent
    /\ supConf = render_supervisord(get_current_mode(Absent))
    /\ engine = "stopped"
    /\ pc = "idle"
    /\ inv = NoInv
    /\ database_settings = NoConfig
    /\ maas_url = None
    /\ rpc_secret = None
    /\ ret = ""
    /\ outcome = [status |-> "none", at |-> ""]
    /\ trace = <<>>

NON_ROOT_USER == "snap_daemon"

\* Before run_with_drop_privileges is called: one root process, the default
\* signal dispositions, no child.
PrivInit ==
    /\ parent = [pc |-> "start", ruid |-> "root", euid |-> "root",
                 keeps_caps |-> FALSE, installed |-> FALSE,
                 frames |-> <<>>, received |-> <<>>]
    /\ child = [state |-> "none", ruid |-> "root", euid |-> "root",
                keeps_caps |-> FALSE, status |-> 0]
    /\ cmdRuns = <<>>
    /\ kills = <<>>

\* Before wait_for_postgresql is called; the clock counts seconds.
WaitInit ==
    wait = [pc |-> "idle", timeout |-> 0, start |-> 0, now |-> 0,
            end_time |-> 0, queries |-> 0, failed |-> 0, last_end |-> 0]

\* Before sighup_supervisord is called: no supervisor has been started.
ReloadInit ==
    /\ reload = [pc |-> "idle", pid |-> None, sighups |-> 0, polls |-> 0,
                 slept |-> 0, output |-> None]
    /\ supervisor = [pidfile |-> FALSE, process |-> "none"]

\* Before get_database_settings is called.
ResolverInit ==
    /\ query = [options |-> [database_uri |-> None, database_host |-> None,
                             database_name |-> None, database_user |-> None,
                             database_pass |-> None, database_port |-> NoPort],
                parsed |-> FALSE, lines |-> <<>>, socket_exists |-> FALSE]
    /\ resolution = [status |-> "none", kind |-> "", detail |-> {},
                   settings |-> NoConfig]

\* sys.exit(code), SystemExit(message), an uncaught exception, or neither
\* yet.
Running == [kind |-> "none", code |-> 0, what |-> ""]

\* Before a command is invoked.
CommandInit ==
    /\ command = [cmd |-> "", uid |-> 0, mode |-> "none",
                  current_mode |-> "none", configure |-> FALSE,
                  isatty |-> FALSE]
    /\ handler = [pc |-> "idle", effects |-> <<>>, printed |-> <<>>,
                  ret |-> 0, output |-> "", exit |-> Running]

\* Before `config` is run: nothing persisted, no flags.
ConfigInit ==
    /\ store = [mode |-> "none", config |-> NoConfig, secret |-> Absent]
    /\ edit = [options |->
                   [render |-> FALSE, show |-> FALSE, maas_url |-> None,
                    database_host |-> None, database_name |-> None,
                    database_user |-> None, database_pass |-> None,
                    secret |-> None, num_workers |-> -1,
                    enable_debug |-> FALSE, disable_debug |-> FALSE,
                    enable_debug_queries |-> FALSE,
                    disable_debug_queries |-> FALSE],
               before |-> NoConfig, written |-> {}, secret_set |-> FALSE,
               reload |-> FALSE, repeated |-> FALSE, status |-> "none"]

\* The two invocations of init.
Racers == {1, 2}

\* Before either init is invoked; nobody (0) has written anything.
RaceInit ==
    /\ inits = [p \in Racers |-> [pc |-> "idle", mode |-> "none"]]
    /\ writers = [mode |-> 0, plan |-> 0, settings |-> 0]

\* Before perform_work is called: an empty terminal line, no thread.
WorkInit ==
    /\ work = [pc |-> "idle", tty |-> FALSE, calls |-> 0, result |-> None,
               ret |-> None, outcome |-> None, evnt |-> FALSE]
    /\ display = [pc |-> "none", idx |-> 0, writes |-> 0, line |-> "empty"]

Init ==
    /\ MainInit
    /\ PrivInit
    /\ WaitInit
    /\ ReloadInit
    /\ WorkInit
    /\ ResolverInit
    /\ CommandInit
    /\ ConfigInit
    /\ RaceInit

\* The command ends (return, sys.exit or an uncaught exception).
Finish(status, at) ==
    /\ pc' = "idle"
    /\ outcome' = [status |-> status, at |-> at]
    /\ database_settings' = NoConfig
    /\ maas_url' = None
    /\ rpc_secret' = None
    /\ ret' = ""
    /\ UNCHANGED inv

Goto(next) ==
    /\ pc' = next
    /\ UNCHANGED <<inv, outcome>>

Log(event) == trace' = Append(trace, event)

\* ---------------------------------------------------------------- inputs
\* Lines typed at the prompts of one step.
Lines == UNION {[1..n -> TypedLines] : n \in 0..MaxLines}

NoDbOptions ==
    [database_uri |-> None, database_host |-> None, database_name |-> None,
     database_user |-> None, database_pass |-> None, database_port |-> NoPort]

\* The database flag combinations given to `init region` / `region+rack`.
InitDbOptions ==
    { NoDbOptions,
      [NoDbOptions EXCEPT !.database_uri = UriFull],
      [NoDbOptions EXCEPT !.database_uri = UriMysql],
      [NoDbOptions EXCEPT !.database_uri = UriSslmode],
      [NoDbOptions EXCEPT !.database_uri = UriNoUser],
      [NoDbOptions EXCEPT !.database_host = UserValue,
                          !.database_name = UserValue],
      [NoDbOptions EXCEPT !.database_host = UserValue,
                          !.database_name = UserValue,
                          !.database_user = UserValue,
                          !.database_pass = UserValue],
      [NoDbOptions EXCEPT !.database_host = UserValue,
                          !.database_name = UserValue,
                          !.database_user = UserValue,
                          !.database_pass = UserValue,
                          !.database_port = 5432],
      [NoDbOptions EXCEPT !.database_uri = UriFull,
                          !.database_host = UserValue] }

OptionStrings == {None, "", UserValue}

\* ------------------------------------------------------------ cmd_init
\* Variant: the services of the current mode are never stopped.
AfterResolve_NoStop(current_mode) == "write_settings"

\* The step that follows the resolution of the options: the stop of the
\* services when the controller is in another mode.
AfterResolve(current_mode) ==
    IF current_mode # "none" THEN "stop_render" ELSE "write_settings"

\* cmd_init.handle up to the first confirmation question.
InitStart(mode, force) ==
    /\ pc = "idle"
    /\ LET current_mode == get_current_mode(modeFile)
       IN  /\ inv' = [cmd |-> "init", mode |-> mode, force |-> force,
                      current_mode |-> current_mode]
           /\ pc' = IF current_mode # "none" /\ ~force
                    THEN "confirm_init" ELSE "resolve_db"
    /\ trace' = <<>>
    /\ outcome' = [status |-> "running", at |-> ""]
    /\ UNCHANGED <<persistent, locals>>

\* Variant: the services are stopped before the question is asked.
ConfirmInit_StopsFirst(initialize) ==
    /\ pc = "confirm_init"
    /\ IF initialize = "no"
       THEN Finish("exit0", "confirm_init")
       ELSE /\ Goto(IF inv.current_mode = "all" /\ ~inv.force
                    THEN "confirm_db" ELSE "resolve_db")
            /\ UNCHANGED locals
    /\ supConf' = render_supervisord("none")
    /\ UNCHANGED <<modeFile, config, secretFile, engine, trace>>

\* Variant: a yes to the first question goes on without the question about
\* the database.
ConfirmInit_SkipsDb(initialize) ==
    /\ pc = "confirm_init"
    /\ IF initialize = "no"
       THEN Finish("exit0", "confirm_init")
       ELSE Goto("resolve_db") /\ UNCHANGED locals
    /\ UNCHANGED <<persistent, trace>>

\* "Are you sure you want to initialize again / de-initialize?"
ConfirmInit(initialize) ==
    /\ pc = "confirm_init"
    /\ IF initialize = "no"
       THEN Finish("exit0", "confirm_init")
       ELSE /\ Goto(IF inv.current_mode = "all" /\ ~inv.force
                    THEN "confirm_db" ELSE "resolve_db")
            /\ UNCHANGED locals
    /\ UNCHANGED <<persistent, trace>>

\* "... disconnect the database?" (all -> other) or
\* "... re-initialize the database?" (all -> all).
ConfirmDb(answer) ==
    /\ pc = "confirm_db"
    /\ IF answer = "no"
       THEN Finish("exit0", "confirm_db")
       ELSE Goto("resolve_db") /\ UNCHANGED locals
    /\ UNCHANGED <<persistent, trace>>

AllModeSettings ==
    ("database_host" :> DbSocketDir @@ "database_name" :> "maasdb"
     @@ "database_user" :> "maas" @@ "database_pass" :> RandomPass)

\* A variant that renders the stopped supervisor configuration before it
\* resolves the settings.
ResolveDb_StopsFirst(options, lines, socket_exists) ==
    /\ pc = "resolve_db"
    /\ LET resolved ==
               IF inv.mode = "all" THEN DbOk(AllModeSettings)
               ELSE IF inv.mode \in {"region", "region+rack"}
               THEN get_database_settings(options, lines, socket_exists)
               ELSE DbOk(NoConfig)
       IN  IF resolved.status = "ok"
           THEN /\ database_settings' = resolved.settings
                /\ Goto("resolve_url")
                /\ UNCHANGED <<maas_url, rpc_secret, ret>>
           ELSE Finish("fail", "resolve_db")
    /\ supConf' = render_supervisord("none")
    /\ UNCHANGED <<modeFile, config, secretFile, engine, trace>>

\* A variant that asks get_database_settings whatever the target mode.
ResolveDb_AlwaysResolver(options, lines, socket_exists) ==
    /\ pc = "resolve_db"
    /\ LET resolved == get_database_settings(options, lines, socket_exists)
       IN  IF resolved.status = "ok"
           THEN /\ database_settings' = resolved.settings
                /\ Goto("resolve_url")
                /\ UNCHANGED <<maas_url, rpc_secret, ret>>
           ELSE Finish("fail", "resolve_db")
    /\ UNCHANGED <<persistent, trace>>

\* The database settings of the target mode.
ResolveDb(options, lines, socket_exists) ==
    /\ pc = "resolve_db"
    /\ LET resolved ==
               IF inv.mode = "all" THEN DbOk(AllModeSettings)
               ELSE IF inv.mode \in {"region", "region+rack"}
               THEN get_database_settings(options, lines, socket_exists)
               ELSE DbOk(NoConfig)
       IN  IF resolved.status = "ok"
           THEN /\ database_settings' = resolved.settings
                /\ Goto("resolve_url")
                /\ UNCHANGED <<maas_url, rpc_secret, ret>>
           ELSE Finish("fail", "resolve_db")
    /\ UNCHANGED <<persistent, trace>>

\* maas_url: the flag, or the prompt with the gateway default.
ResolveUrl(flag, lines) ==
    /\ pc = "resolve_url"
    /\ LET prompted == required_prompt(lines, DefaultUrl)
           value == IF inv.mode # "none" /\ (flag = None \/ flag = "")
                    THEN prompted.value ELSE flag
       IN  IF value = EOF
           THEN Finish("fail", "resolve_url")
           ELSE /\ maas_url' = value
                /\ Goto("resolve_secret")
                /\ UNCHANGED <<database_settings, rpc_secret, ret>>
    /\ UNCHANGED <<persistent, trace>>

\* The shared secret, for rack only.
ResolveSecret(flag, lines) ==
    /\ pc = "resolve_secret"
    /\ LET prompted == required_prompt(lines, None)
           value == IF inv.mode # "rack" THEN None
                    ELSE IF flag = None \/ flag = ""
                    THEN prompted.value ELSE flag
       IN  IF value = EOF
           THEN Finish("fail", "resolve_secret")
           ELSE /\ rpc_secret' = value
                /\ Goto(AfterResolve(inv.current_mode))
                /\ UNCHANGED <<database_settings, maas_url, ret>>
    /\ UNCHANGED <<persistent, trace>>

\* stop_services: render_supervisord("none"), then sighup_supervisord().
StopRender ==
    /\ pc = "stop_render"
    /\ supConf' = render_supervisord("none")
    /\ Log("render_none")
    /\ Goto("sighup")
    /\ ret' = "write_settings"
    /\ UNCHANGED <<modeFile, config, secretFile, engine,
                   database_settings, maas_url, rpc_secret>>

\* Variant: maas_url is left out of the batch.
InitSettings_NoUrl(url, db) == db

\* The batch cmd_init.handle hands to MAASConfiguration().update.
InitSettings(url, db) == ("maas_url" :> url) @@ db

\* Variant: one update call per key, as cmd_config does; a failing call
\* leaves the keys written before it.
WriteSettings_PerKey(written) ==
    /\ pc = "write_settings"
    /\ IF written
       THEN /\ config' = ConfigUpdate(config,
                                      InitSettings(maas_url, database_settings))
            /\ Log("config_update")
            /\ Goto("write_secret")
            /\ UNCHANGED locals
       ELSE /\ config' = ConfigUpdate(config, "maas_url" :> maas_url)
            /\ Log("config_update")
            /\ Finish("fail", "write_settings")
    /\ UNCHANGED <<modeFile, secretFile, supConf, engine>>

\* Step 6: the settings batch is written in one update call, which either
\* writes it or raises.
WriteSettings(written) ==
    /\ pc = "write_settings"
    /\ IF written
       THEN /\ config' = ConfigUpdate(config,
                                      InitSettings(maas_url, database_settings))
            /\ Log("config_update")
            /\ Goto("write_secret")
            /\ UNCHANGED locals
       ELSE /\ Finish("fail", "write_settings")
            /\ UNCHANGED <<config, trace>>
    /\ UNCHANGED <<modeFile, secretFile, supConf, engine>>

\* Variant: the mode is persisted together with the secret.
WriteSecret_ModeEarly ==
    /\ pc = "write_secret"
    /\ secretFile' = set_rpc_secret(secretFile, rpc_secret)
    /\ modeFile' = set_current_mode(inv.mode)
    /\ Log("set_rpc_secret")
    /\ Goto(IF inv.mode = "all" THEN "init_db" ELSE "start_render")
    /\ UNCHANGED <<config, supConf, engine, locals>>

\* set_rpc_secret(rpc_secret), then _finalize_init.
WriteSecret ==
    /\ pc = "write_secret"
    /\ secretFile' = set_rpc_secret(secretFile, rpc_secret)
    /\ Log("set_rpc_secret")
    /\ Goto(IF inv.mode = "all" THEN "init_db" ELSE "start_render")
    /\ UNCHANGED <<modeFile, config, supConf, engine, locals>>

\* ------------------------------------------------- sighup_supervisord
\* The caller of the reload in progress, for the failure report.
ReloadSite ==
    IF inv.cmd = "init"
    THEN (IF ret = "write_settings" THEN "stop_services" ELSE "start_services")
    ELSE inv.cmd

\* get_supervisord_pid and os.kill(pid, SIGHUP): no pid file or no such
\* process returns at once, otherwise the status polling starts.
SighupSignal(pid) ==
    /\ pc = "sighup"
    /\ IF pid = "live"
       THEN /\ Log("SIGHUP")
            /\ Goto("poll")
            /\ UNCHANGED locals
       ELSE /\ Log("reload_noop")
            /\ Goto(ret)
            /\ ret' = ""
            /\ UNCHANGED <<database_settings, maas_url, rpc_secret>>
    /\ UNCHANGED persistent

\* One `run-supervisorctl status`: output with "error:" sleeps and polls
\* again, any other output ends the reload; the subprocess may fail to
\* launch (OSError).
PollStatus(output) ==
    /\ pc = "poll"
    /\ CASE output = "error:" -> UNCHANGED <<pc, inv, outcome, locals, trace>>
         [] output = "OSError" ->
                Finish("fail", ReloadSite) /\ UNCHANGED trace
         [] OTHER ->
                /\ Log("reloaded")
                /\ Goto(ret)
                /\ ret' = ""
                /\ UNCHANGED <<database_settings, maas_url, rpc_secret>>
    /\ UNCHANGED persistent

\* ------------------------------------------------------------- init_db
\* with_postgresql: whether stop_postgres runs when the body of the with
\* block is left.  The generator has no try/finally, so an exception thrown
\* into it at the yield skips stop_postgres.
with_postgresql_stops(body_raised) == ~body_raised

\* Directories, then the initdb tool in the unprivileged child.
InitDbTool(ok) ==
    /\ pc = "init_db"
    /\ Log("init_db")
    /\ IF ok
       THEN Goto("pg_start") /\ UNCHANGED locals
       ELSE Finish("fail", "init_db")
    /\ UNCHANGED persistent

\* start_postgres: pg_ctl start -w, then wait_for_postgresql.
PgStart(result) ==
    /\ pc = "pg_start"
    /\ CASE result = "ok" ->
                /\ engine' = "running"
                /\ Log("pg_start")
                /\ Goto("create_db")
                /\ UNCHANGED locals
         [] result = "TimeoutError" ->
                /\ engine' = "running"
                /\ Log("pg_start")
                /\ Finish("fail", "pg_start")
         [] OTHER ->
                /\ Finish("fail", "pg_start")
                /\ UNCHANGED <<engine, trace>>
    /\ UNCHANGED <<modeFile, config, secretFile, supConf>>

\* Number of bootstrap statements of create_db.
CreateDbStatements == 3

\* create_db inside `with with_postgresql()`: `executed` statements succeed;
\* if that is not all of them the next one raised.  Leaving the with block
\* runs stop_postgres (pg_ctl stop -w) when the context manager resumes.
CreateDb(executed) ==
    /\ pc = "create_db"
    /\ LET body_raised == executed < CreateDbStatements
           stops == with_postgresql_stops(body_raised)
           ran == [i \in 1..executed |-> "run_sql"]
       IN  /\ engine' = IF stops THEN "stopped" ELSE engine
           /\ trace' = trace \o ran \o (IF stops THEN <<"pg_stop">> ELSE <<>>)
           /\ IF body_raised
              THEN Finish("fail", "create_db")
              ELSE Goto("start_render") /\ UNCHANGED locals
    /\ UNCHANGED <<modeFile, config, secretFile, supConf>>

\* ----------------------------------------------------- _finalize_init
\* Variant: the migrations of all do not wait for the database.
AfterStart_SkipWait(mode) ==
    IF mode \in {"all", "region", "region+rack"} THEN "migrate" ELSE "done"

\* What follows start_services for the target mode.
AfterStart(mode) ==
    IF mode = "all" THEN "wait_pg"
    ELSE IF mode \in {"region", "region+rack"} THEN "migrate"
    ELSE "done"

\* Variant: the plan is rendered for the mode read at the start.
StartRender_CurrentMode ==
    /\ pc = "start_render"
    /\ supConf' = render_supervisord(inv.current_mode)
    /\ Log("render_target")
    /\ Goto("set_mode")
    /\ UNCHANGED <<modeFile, config, secretFile, engine, locals>>

\* start_services: render_supervisord(mode) ...
StartRender ==
    /\ pc = "start_render"
    /\ supConf' = render_supervisord(inv.mode)
    /\ Log("render_target")
    /\ Goto("set_mode")
    /\ UNCHANGED <<modeFile, config, secretFile, engine, locals>>

\* ... set_current_mode(mode), then sighup_supervisord().
SetMode ==
    /\ pc = "set_mode"
    /\ modeFile' = set_current_mode(inv.mode)
    /\ Log("set_current_mode")
    /\ Goto("sighup")
    /\ ret' = AfterStart(inv.mode)
    /\ UNCHANGED <<config, secretFile, supConf, engine,
                   database_settings, maas_url, rpc_secret>>

\* perform_work("Waiting for postgresql", wait_for_postgresql)
WaitPg(ready) ==
    /\ pc = "wait_pg"
    /\ IF ready
       THEN Log("wait_for_postgresql") /\ Goto("migrate") /\ UNCHANGED locals
       ELSE Finish("fail", "wait_pg") /\ UNCHANGED trace
    /\ UNCHANGED persistent

\* perform_work("Performing database migrations", migrate_db)
Migrate(ok) ==
    /\ pc = "migrate"
    /\ IF ok
       THEN /\ Log("migrate_db")
            /\ Goto(IF inv.mode = "all" THEN "init_maas" ELSE "done")
            /\ UNCHANGED locals
       ELSE Finish("fail", "migrate") /\ UNCHANGED trace
    /\ UNCHANGED persistent

\* init_maas(options): first-admin creation, for all only.
InitMaas(ok) ==
    /\ pc = "init_maas"
    /\ IF ok
       THEN Log("init_maas") /\ Goto("done") /\ UNCHANGED locals
       ELSE Finish("fail", "init_maas") /\ UNCHANGED trace
    /\ UNCHANGED persistent

\* The handler returns.
Done ==
    /\ pc = "done"
    /\ Finish("ok", "")
    /\ UNCHANGED <<persistent, trace>>

\* ----------------------------------------------------------- cmd_config
setting_flags ==
    <<"maas_url", "database_host", "database_name", "database_user",
      "database_pass">>

\* cmd_config.required_options: there is no entry for all.
required_options ==
    [m \in {"region+rack", "region", "rack", "none"} |->
        CASE m \in {"region+rack", "region"} ->
                {"maas_url", "database_host", "database_name",
                 "database_user", "database_pass"}
          [] m = "rack" -> {"maas_url", "secret"}
          [] OTHER -> {}]

\* An integer flag that was not given.
NoInt == -1

NoConfigOptions ==
    [render |-> FALSE, show |-> FALSE,
     maas_url |-> None, database_host |-> None, database_name |-> None,
     database_user |-> None, database_pass |-> None, secret |-> None,
     num_workers |-> NoInt, enable_debug |-> FALSE, disable_debug |-> FALSE,
     enable_debug_queries |-> FALSE, disable_debug_queries |-> FALSE]

StringFlags == {"secret"} \cup {setting_flags[i] : i \in DOMAIN setting_flags}

\* True when a flag that changes configuration was passed.
AnySettingFlag(options) ==
    \/ \E f \in StringFlags : options[f] # None
    \/ options.num_workers # NoInt
    \/ options.enable_debug \/ options.disable_debug
    \/ options.enable_debug_queries \/ options.disable_debug_queries

in_config_mode(options) == options.show \/ ~AnySettingFlag(options)

\* _validate_flags: the flags given (truthy) that the mode does not list.
invalid_flags(options, running_mode) ==
    {f \in StringFlags :
        f \notin required_options[running_mode]
        /\ options[f] # None /\ options[f] # ""}

\* current_config.get(key) != value
Differs(cfg, key, value) == key \notin DOMAIN cfg \/ cfg[key] # value

\* The loop over setting_flags: each changed flag is written by its own
\* update call.
RECURSIVE UpdateSettings(_, _, _, _)
UpdateSettings(cfg, current_config, options, i) ==
    IF i > Len(setting_flags) THEN cfg
    ELSE LET flag == setting_flags[i]
             should_update == options[flag] # None
                              /\ Differs(current_config, flag, options[flag])
         IN  UpdateSettings(
                 IF should_update
                 THEN ConfigUpdate(cfg, flag :> options[flag]) ELSE cfg,
                 current_config, options, i + 1)

\* The loop over optional_flags, in declaration order, comparing with the
\* configuration fetched before the loop.
UpdateOptional(cfg, options) ==
    LET c1 == IF options.num_workers # NoInt
                 /\ Differs(cfg, "num_workers", options.num_workers)
              THEN ConfigUpdate(cfg, "num_workers" :> options.num_workers)
              ELSE cfg
        c2 == IF options.enable_debug /\ Differs(cfg, "debug", TRUE)
              THEN ConfigUpdate(c1, "debug" :> TRUE) ELSE c1
        c3 == IF options.disable_debug /\ Differs(cfg, "debug", FALSE)
              THEN ConfigUpdate(c2, "debug" :> FALSE) ELSE c2
        c4 == IF options.enable_debug_queries
                 /\ Differs(cfg, "debug_queries", TRUE)
              THEN ConfigUpdate(c3, "debug_queries" :> TRUE) ELSE c3
        c5 == IF options.disable_debug_queries
                 /\ Differs(cfg, "debug_queries", FALSE)
              THEN ConfigUpdate(c4, "debug_queries" :> FALSE) ELSE c4
    IN  c5

\* True when one of the two loops called update.
restart_required(cfg, options) ==
    \/ \E i \in DOMAIN setting_flags :
            /\ options[setting_flags[i]] # None
            /\ Differs(cfg, setting_flags[i], options[setting_flags[i]])
    \/ LET current_config == UpdateSettings(cfg, cfg, options, 1)
       IN  \/ options.num_workers # NoInt
              /\ Differs(current_config, "num_workers", options.num_workers)
           \/ options.enable_debug /\ Differs(current_config, "debug", TRUE)
           \/ options.disable_debug /\ Differs(current_config, "debug", FALSE)
           \/ options.enable_debug_queries
              /\ Differs(current_config, "debug_queries", TRUE)
           \/ options.disable_debug_queries
              /\ Differs(current_config, "debug_queries", FALSE)

StartCommand(cmd) ==
    inv' = [cmd |-> cmd, mode |-> get_current_mode(modeFile),
            force |-> FALSE, current_mode |-> get_current_mode(modeFile)]

\* cmd_config.handle, up to the restart of the supervisor.
CmdConfig(options) ==
    /\ pc = "idle"
    /\ StartCommand("config")
    /\ UNCHANGED <<modeFile, engine, database_settings, maas_url, rpc_secret>>
    /\ LET running_mode == get_current_mode(modeFile)
       IN
       IF options.render
       THEN /\ supConf' = render_supervisord(running_mode)
            /\ trace' = <<"render_current">>
            /\ outcome' = [status |-> "ok", at |-> ""]
            /\ UNCHANGED <<config, secretFile, pc, ret>>
       ELSE IF in_config_mode(options)
       THEN /\ trace' = <<>>
            /\ outcome' = [status |-> "ok", at |-> "print_config"]
            /\ UNCHANGED <<config, secretFile, supConf, pc, ret>>
       ELSE IF running_mode \notin DOMAIN required_options
       THEN /\ trace' = <<>>
            /\ outcome' = [status |-> "fail", at |-> "KeyError"]
            /\ UNCHANGED <<config, secretFile, supConf, pc, ret>>
       ELSE IF invalid_flags(options, running_mode) # {}
       THEN /\ trace' = <<>>
            /\ outcome' = [status |-> "exit1", at |-> "validate_flags"]
            /\ UNCHANGED <<config, secretFile, supConf, pc, ret>>
       ELSE LET current_config == UpdateSettings(config, config, options, 1)
                restart == restart_required(config, options)
            IN  /\ config' = UpdateOptional(current_config, options)
                /\ secretFile' = IF options.secret # None
                                 THEN set_rpc_secret(secretFile, options.secret)
                                 ELSE secretFile
                /\ trace' = (IF config' # config
                             THEN <<"config_update">> ELSE <<>>)
                            \o (IF options.secret # None
                                THEN <<"set_rpc_secret">> ELSE <<>>)
                /\ pc' = IF restart THEN "sighup" ELSE "idle"
                /\ ret' = IF restart THEN "done" ELSE ""
                /\ outcome' = IF restart
                              THEN [status |-> "running", at |-> ""]
                              ELSE [status |-> "ok", at |-> ""]
                /\ UNCHANGED supConf

\* ------------------------------------------ cmd_reconfigure_supervisord
CmdReconfigureSupervisord ==
    /\ pc = "idle"
    /\ StartCommand("reconfigure-supervisord")
    /\ supConf' = render_supervisord(get_current_mode(modeFile))
    /\ trace' = <<"render_current">>
    /\ pc' = "sighup"
    /\ ret' = "done"
    /\ outcome' = [status |-> "running", at |-> ""]
    /\ UNCHANGED <<modeFile, config, secretFile, engine,
                   database_settings, maas_url, rpc_secret>>

\* ---------------------------------------------------------------- inputs
\* The flag combinations `config` is run with.
ConfigOptions ==
    {[NoConfigOptions EXCEPT !.render = TRUE],
     [NoConfigOptions EXCEPT !.show = TRUE],
     [NoConfigOptions EXCEPT !.maas_url = ""],
     [NoConfigOptions EXCEPT !.maas_url = UserValue],
     [NoConfigOptions EXCEPT !.database_host = ""],
     [NoConfigOptions EXCEPT !.database_host = UserValue],
     [NoConfigOptions EXCEPT !.secret = ""],
     [NoConfigOptions EXCEPT !.secret = UserValue],
     [NoConfigOptions EXCEPT !.maas_url = UserValue, !.secret = UserValue]}

\* ------------------------------------------------------------------ Next
\* Every combination of the database flags of `init`.
AllDbOptions ==
    [database_uri : {None, ""} \cup ModelUris,
     database_host : OptionStrings, database_name : OptionStrings,
     database_user : OptionStrings, database_pass : OptionStrings,
     database_port : {NoPort, 5432}]

\* One step of a command of the orchestrator; the units modelled on their
\* own stay as they are.
Next ==
    \/ \E mode \in Modes, force \in BOOLEAN : InitStart(mode, force)
            /\ UNCHANGED unitVars
    \/ \E answer \in {"yes", "no"} : ConfirmInit(answer)
            /\ UNCHANGED unitVars
    \/ \E answer \in {"yes", "no"} : ConfirmDb(answer) /\ UNCHANGED unitVars
    \/ \E options \in InitDbOptions, lines \in Lines, sock \in BOOLEAN :
            ResolveDb(options, lines, sock)
            /\ UNCHANGED unitVars
    \/ \E flag \in OptionStrings, lines \in Lines : ResolveUrl(flag, lines)
            /\ UNCHANGED unitVars
    \/ \E flag \in OptionStrings, lines \in Lines : ResolveSecret(flag, lines)
            /\ UNCHANGED unitVars
    \/ StopRender /\ UNCHANGED unitVars
    \/ \E pid \in {"nofile", "stale", "live"} : SighupSignal(pid)
            /\ UNCHANGED unitVars
    \/ \E output \in {"error:", "RUNNING", "OSError"} : PollStatus(output)
            /\ UNCHANGED unitVars
    \/ \E written \in BOOLEAN : WriteSettings(written) /\ UNCHANGED unitVars
    \/ WriteSecret /\ UNCHANGED unitVars
    \/ \E ok \in BOOLEAN : InitDbTool(ok) /\ UNCHANGED unitVars
    \/ \E result \in {"ok", "TimeoutError", "CalledProcessError"} :
            PgStart(result)
            /\ UNCHANGED unitVars
    \/ \E executed \in 0..CreateDbStatements : CreateDb(executed)
            /\ UNCHANGED unitVars
    \/ StartRender /\ UNCHANGED unitVars
    \/ SetMode /\ UNCHANGED unitVars
    \/ \E ready \in BOOLEAN : WaitPg(ready) /\ UNCHANGED unitVars
    \/ \E ok \in BOOLEAN : Migrate(ok) /\ UNCHANGED unitVars
    \/ \E ok \in BOOLEAN : InitMaas(ok) /\ UNCHANGED unitVars
    \/ Done /\ UNCHANGED unitVars
    \/ \E options \in ConfigOptions : CmdConfig(options)
            /\ UNCHANGED unitVars
    \/ CmdReconfigureSupervisord /\ UNCHANGED unitVars

Spec == Init /\ [][Next]_vars

\* =================================================================
\* Properties
\* =================================================================
Range(seq) == {seq[i] : i \in DOMAIN seq}

Mode == get_current_mode(modeFile)

InitEnded(status) ==
    pc = "idle" /\ inv.cmd = "init" /\ outcome.status = status

\* The final reload of init (the one of start_services) is pending.
FinalReloadPending ==
    inv.cmd = "init" /\ pc \in {"sighup", "poll"} /\ ret # "write_settings"

\* C1: in an init transition the persisted Mode is written only after the
\* supervisor reload for the target plan has completed, so while that
\* reload is pending, or after it failed, Mode still holds its
\* pre-transition value.
C1_ModeWrittenAfterReload ==
    (FinalReloadPending
        \/ (InitEnded("fail") /\ outcome.at = "start_services"))
    => Mode = inv.current_mode

StepsBeforeModeWrite ==
    {"resolve_db", "resolve_url", "resolve_secret", "stop_services",
     "write_settings", "init_db", "pg_start", "create_db"}
StepsAfterModeWrite == {"start_services", "wait_pg", "migrate", "init_maas"}

C3_NoAbortsWithoutSideEffects ==
    [][((pc = "idle" /\ pc' \in {"confirm_init", "confirm_db"})
            \/ pc \in {"confirm_init", "confirm_db"})
        => (UNCHANGED persistent /\ trace' = <<>>)]_vars

C3_Witness ==
    /\ InitEnded("exit0")
    /\ outcome.at = "confirm_db"
    /\ Mode = "all"
    /\ trace = <<>>

StopCompleteBefore(i) ==
    \E j \in 1..(i - 1), k \in 1..(i - 1) :
        /\ j < k
        /\ trace[j] = "render_none"
        /\ trace[k] \in {"reloaded", "reload_noop"}

\* C4: when current Mode != none, init has rendered the plan for none and
\* completed the supervisor reload before the settings write, the secret
\* write and the database initialization; when current Mode is none it
\* renders no stop plan and the first reload comes after the mode write.
C4_StopBeforeMutation ==
    inv.cmd = "init" =>
        /\ inv.current_mode # "none" =>
            \A i \in DOMAIN trace :
                trace[i] \in {"config_update", "set_rpc_secret", "init_db"}
                    => StopCompleteBefore(i)
        /\ inv.current_mode = "none" =>
            /\ "render_none" \notin Range(trace)
            /\ \A i \in DOMAIN trace :
                trace[i] \in {"SIGHUP", "reload_noop"}
                    => \E j \in 1..(i - 1) : trace[j] = "set_current_mode"

C4_Witness ==
    /\ inv.cmd = "init"
    /\ inv.current_mode = "region"
    /\ pc = "start_render"
    /\ trace = <<"render_none", "SIGHUP", "reloaded", "config_update",
                 "set_rpc_secret">>

\* The role table of the supervisor plan.
RoleTable ==
    [m \in Modes |->
        CASE m = "none" ->
                [postgresql |-> FALSE, regiond |-> FALSE, rackd |-> FALSE]
          [] m = "rack" ->
                [postgresql |-> FALSE, regiond |-> FALSE, rackd |-> TRUE]
          [] m = "region" ->
                [postgresql |-> FALSE, regiond |-> TRUE, rackd |-> FALSE]
          [] m = "region+rack" ->
                [postgresql |-> FALSE, regiond |-> TRUE, rackd |-> TRUE]
          [] m = "all" ->
                [postgresql |-> TRUE, regiond |-> TRUE, rackd |-> TRUE]]

\* C5: the configuration written by render(M) carries the role flags of
\* the table for M: right after stop_services rendered none and right
\* after start_services rendered the target mode, for all five modes.
C5_RenderMatchesTable ==
    /\ (inv.cmd = "init" /\ pc = "sighup" /\ ret = "write_settings")
            => supConf = RoleTable["none"]
    /\ (inv.cmd = "init" /\ pc = "set_mode") => supConf = RoleTable[inv.mode]

C5_Witness ==
    /\ inv.cmd = "init"
    /\ pc = "set_mode"
    /\ inv.mode = "region"
    /\ supConf = [postgresql |-> FALSE, regiond |-> TRUE, rackd |-> FALSE]

\* The last command rendered the supervisor configuration and succeeded.
RenderingCommandDone ==
    /\ pc = "idle"
    /\ outcome.status = "ok"
    /\ \/ inv.cmd \in {"init", "reconfigure-supervisord"}
       \/ inv.cmd = "config" /\ trace = <<"render_current">>

\* C6: initially, and whenever an init, reconfigure-supervisord or
\* config --render has completed successfully, the role flags of the
\* rendered supervisor configuration are the table value of the persisted
\* Mode.
C6_PlanFollowsMode ==
    ((pc = "idle" /\ outcome.status = "none") \/ RenderingCommandDone)
        => supConf = RoleTable[Mode]

C6_Witness ==
    /\ RenderingCommandDone
    /\ inv.cmd = "init"
    /\ inv.current_mode = "all"
    /\ Mode = "rack"

\* C7: after a successful init to target T the secret file holds the
\* non-empty secret that was supplied if T is rack and is absent for every
\* other T; a successful init to none leaves Mode none and no secret.
C7_SecretAfterInit ==
    /\ (inv.cmd = "init" /\ pc = "done" /\ inv.mode = "rack")
            => (secretFile = rpc_secret
                /\ rpc_secret \notin {None, "", "help", EOF})
    /\ InitEnded("ok") =>
            /\ inv.mode = "rack" <=> secretFile # Absent
            /\ inv.mode = "none" => (Mode = "none" /\ secretFile = Absent)

C7_Witness ==
    /\ InitEnded("ok")
    /\ inv.current_mode = "rack"
    /\ inv.mode = "none"
    /\ secretFile = Absent

\* A ConfigStore key holding a value.
IsSet(key) == key \in DOMAIN config /\ config[key] \notin {None, ""}
NonEmptySet(keys) == \A key \in keys : IsSet(key)

BatchKeys == {"maas_url"} \cup DOMAIN database_settings
BatchValue(key) ==
    IF key = "maas_url" THEN maas_url ELSE database_settings[key]

\* C9: every step of init either leaves the ConfigStore as it was or
\* leaves it holding the value of every key of the batch (maas_url and
\* the database settings), other keys untouched: no step writes a proper
\* part of the batch.
C9_SettingsBatchAtomic ==
    [][(inv.cmd = "init" /\ inv' = inv /\ config' # config)
        => /\ \A key \in BatchKeys :
                key \in DOMAIN config' /\ config'[key] = BatchValue(key)
           /\ \A key \in (DOMAIN config) \ BatchKeys :
                key \in DOMAIN config' /\ config'[key] = config[key]]_vars

C9_Witness ==
    /\ inv.cmd = "init"
    /\ pc = "write_secret"
    /\ inv.mode = "region+rack"
    /\ BatchKeys = {"maas_url", "database_host", "database_name",
                    "database_user", "database_pass", "database_port"}
    /\ \A key \in BatchKeys : config[key] = BatchValue(key)

\* C10: once init_db has started the engine, the engine is stopped again
\* whenever init_db is left, by returning or by failing.
C10_InitDbLeavesEngineStopped ==
    (inv.cmd = "init" /\ "pg_start" \in Range(trace) /\ pc # "create_db")
        => engine = "stopped"

\* =====================================================================
\* run_with_drop_privileges: the fork, the two processes and the signals
\* that reach the parent.

SIGINT == 2
SIGTERM == 15
Signals == {SIGINT, SIGTERM}

\* The status os.waitpid reports: the exit code in the high byte, the
\* terminating signal in the low one.
WaitStatus(exit_code, term_signal) == exit_code * 256 + term_signal

\* change_user called by process p.  os.setgroups needs CAP_SETGID in the
\* effective set, which the kernel clears when the effective uid leaves 0
\* unless the process keeps its capabilities (no-setuid-fixup securebit);
\* without it os.setgroups raises PermissionError and nothing is changed.
change_user(p, username, effective) ==
    IF ~(p.euid = "root" \/ p.keeps_caps)
    THEN [raised |-> TRUE, ruid |-> p.ruid, euid |-> p.euid]
    ELSE IF effective
    THEN [raised |-> FALSE, ruid |-> p.ruid, euid |-> username]
    ELSE [raised |-> FALSE, ruid |-> username, euid |-> username]

\* Everything but the variables of this unit.
notPriv == <<mainVars, waitVars, reloadVars, workVars, resolverVars,
             commandVars, configVars,
    raceVars>>

\* pid = os.fork(): the child starts as a copy of the parent.
Fork(keeps_caps) ==
    /\ parent.pc = "start"
    /\ parent' = [parent EXCEPT !.pc = "forked", !.keeps_caps = keeps_caps]
    /\ child' = [state |-> "forked", ruid |-> parent.ruid,
                 euid |-> parent.euid, keeps_caps |-> keeps_caps,
                 status |-> 0]
    /\ UNCHANGED <<cmdRuns, kills, notPriv>>

\* The child's change_user(NON_ROOT_USER); an exception ends the child
\* with exit code 1 before cmd is called.
ChildChangeUser ==
    /\ child.state = "forked"
    /\ LET r == change_user(child, NON_ROOT_USER, FALSE) IN
        child' = IF r.raised
                 THEN [child EXCEPT !.state = "zombie",
                                    !.status = WaitStatus(1, 0)]
                 ELSE [child EXCEPT !.state = "running",
                                    !.ruid = r.ruid, !.euid = r.euid]
    /\ UNCHANGED <<parent, cmdRuns, kills, notPriv>>

\* The child's cmd(*args, **kwargs) and sys.exit(0); cmd raising ends the
\* child with exit code 1.
ChildCmd(ok) ==
    /\ child.state = "running"
    /\ cmdRuns' = Append(cmdRuns, [proc |-> "child", ruid |-> child.ruid])
    /\ child' = [child EXCEPT !.state = "zombie",
                     !.status = WaitStatus(IF ok THEN 0 ELSE 1, 0)]
    /\ UNCHANGED <<parent, kills, notPriv>>

\* The parent's two signal.signal calls.
InstallHandlers ==
    /\ parent.pc = "forked"
    /\ parent' = [parent EXCEPT !.pc = "wait", !.installed = TRUE]
    /\ UNCHANGED <<child, cmdRuns, kills, notPriv>>

\* A variant that continues whatever the child's status.
Waitpid_IgnoresStatus ==
    /\ parent.pc = "wait"
    /\ parent.frames = <<>>
    /\ child.state = "zombie"
    /\ child' = [child EXCEPT !.state = "reaped"]
    /\ parent' = [parent EXCEPT !.pc = "after"]
    /\ UNCHANGED <<cmdRuns, kills, notPriv>>

\* _, code = os.waitpid(pid, 0) returns once the child has ended; a
\* non-zero code is sys.exit(1), zero returns to the caller.
Waitpid ==
    /\ parent.pc = "wait"
    /\ parent.frames = <<>>
    /\ child.state = "zombie"
    /\ child' = [child EXCEPT !.state = "reaped"]
    /\ parent' = [parent EXCEPT
                    !.pc = IF child.status # 0 THEN "exit1" ELSE "after"]
    /\ UNCHANGED <<cmdRuns, kills, notPriv>>

\* The handler, or the signal that interrupted the handler, raised: the
\* exception unwinds every frame and ends the parent.  No frame restores
\* the effective user on the way out.
Raise == [parent EXCEPT !.pc = "crashed", !.frames = <<>>]

\* SIGINT or SIGTERM reaches the parent.  Before the handlers are installed
\* the default disposition ends it; afterwards signal_handler is called, on
\* top of whatever the parent is executing, a running handler included.
Signal(sig) ==
    /\ parent.pc \in {"forked", "wait", "after"}
    /\ Len(parent.received) < MaxSignals
    /\ parent' = IF parent.installed
                 THEN [parent EXCEPT
                         !.received = Append(@, sig),
                         !.frames = Append(@, [sig |-> sig, at |-> "enter"])]
                 ELSE [parent EXCEPT !.pc = "killed"]
    /\ UNCHANGED <<child, cmdRuns, kills, notPriv>>

Top == parent.frames[Len(parent.frames)]
SetTop(at) == [parent.frames EXCEPT ![Len(parent.frames)].at = at]
Pop == SubSeq(parent.frames, 1, Len(parent.frames) - 1)

\* privileges_dropped, before the yield.
HandlerDrop ==
    /\ parent.frames # <<>>
    /\ Top.at = "enter"
    /\ LET r == change_user(parent, NON_ROOT_USER, TRUE) IN
        parent' = IF r.raised THEN Raise
                  ELSE [parent EXCEPT !.euid = r.euid,
                                      !.frames = SetTop("dropped")]
    /\ UNCHANGED <<child, cmdRuns, kills, notPriv>>

\* os.kill(pid, signal): the child ends by the signal unless it has already
\* ended; once it has been waited for the pid names no process and os.kill
\* raises ProcessLookupError.
HandlerKill ==
    /\ parent.frames # <<>>
    /\ Top.at = "dropped"
    /\ IF child.state = "reaped"
       THEN /\ parent' = Raise
            /\ UNCHANGED <<child, kills>>
       ELSE /\ kills' = Append(kills, [sig |-> Top.sig, euid |-> parent.euid])
            /\ child' = IF child.state \in {"forked", "running"}
                        THEN [child EXCEPT !.state = "zombie",
                                           !.status = WaitStatus(0, Top.sig)]
                        ELSE child
            /\ parent' = [parent EXCEPT !.frames = SetTop("killed")]
    /\ UNCHANGED <<cmdRuns, notPriv>>

\* privileges_dropped, after the yield, and the return of the handler.
HandlerRestore ==
    /\ parent.frames # <<>>
    /\ Top.at = "killed"
    /\ LET r == change_user(parent, "root", TRUE) IN
        parent' = IF r.raised THEN Raise
                  ELSE [parent EXCEPT !.euid = r.euid, !.frames = Pop]
    /\ UNCHANGED <<child, cmdRuns, kills, notPriv>>

NextPriv ==
    \/ \E keeps_caps \in BOOLEAN : Fork(keeps_caps)
    \/ ChildChangeUser
    \/ \E ok \in BOOLEAN : ChildCmd(ok)
    \/ InstallHandlers
    \/ Waitpid
    \/ \E sig \in Signals : Signal(sig)
    \/ HandlerDrop
    \/ HandlerKill
    \/ HandlerRestore

SpecPriv == Init /\ [][NextPriv]_vars

\* C11: once a privileges_dropped scope has been left, by its body
\* returning or by an exception, the effective user of the process is root
\* again.
C11_RootRestoredOnEveryExit ==
    parent.frames = <<>> => parent.euid = "root"

\* C12: the parent returns or exits only after the child has ended and been
\* waited for; a non-zero wait status (an exit code or a terminating
\* signal) makes the parent exit with 1, a zero status lets it continue;
\* cmd is executed by the child only, under the non-privileged real user.
C12_ParentFollowsChild ==
    /\ parent.pc \in {"after", "exit1"} => child.state = "reaped"
    /\ parent.pc = "exit1" => child.status # 0
    /\ parent.pc = "after" => child.status = 0
    /\ \A i \in DOMAIN cmdRuns :
        cmdRuns[i].proc = "child" /\ cmdRuns[i].ruid = NON_ROOT_USER

\* The child was ended by a forwarded SIGTERM and the parent exited with 1.
C12_Witness ==
    /\ parent.pc = "exit1"
    /\ child.status = WaitStatus(0, SIGTERM)
    /\ Len(cmdRuns) = 0

\* How often signal s occurs in a sequence of signals.
RECURSIVE Count(_, _)
Count(seq, s) ==
    IF seq = <<>> THEN 0
    ELSE (IF Head(seq) = s THEN 1 ELSE 0) + Count(Tail(seq), s)

KillSignals == [i \in DOMAIN kills |-> kills[i].sig]

\* C13: every os.kill of the parent is sent under the non-privileged
\* effective user, and once every handler has returned the parent is root
\* again and has sent the child each signal it received.
C13_ForwardedUnprivileged ==
    /\ \A i \in DOMAIN kills : kills[i].euid = NON_ROOT_USER
    /\ (parent.pc \in {"wait", "after"} /\ parent.frames = <<>>) =>
        /\ parent.euid = "root"
        /\ \A s \in Signals :
            Count(KillSignals, s) = Count(parent.received, s)

\* =====================================================================
\* wait_for_postgresql: the retry loop against the clock.

notWait == <<mainVars, privVars, reloadVars, workVars, resolverVars,
             commandVars, configVars,
    raceVars>>

\* end_time = time.time() + timeout
WaitStart(timeout) ==
    /\ wait.pc = "idle"
    /\ wait' = [wait EXCEPT !.pc = "query", !.timeout = timeout,
                            !.start = wait.now,
                            !.end_time = wait.now + timeout]
    /\ UNCHANGED notWait

\* A variant that gives up at the first failed query.
Query_RaisesAtOnce(ok, duration) ==
    /\ wait.pc = "query"
    /\ wait' = [wait EXCEPT
                  !.now = wait.now + duration,
                  !.last_end = wait.now + duration,
                  !.queries = @ + 1,
                  !.failed = IF ok THEN @ ELSE @ + 1,
                  !.pc = IF ok THEN "returned" ELSE "raised"]
    /\ UNCHANGED notWait

\* One run_sql("SELECT now();"), which takes `duration` seconds: success
\* leaves the loop; CalledProcessError reads the clock and either raises
\* TimeoutError or goes to sleep.
Query(ok, duration) ==
    /\ wait.pc = "query"
    /\ LET now == wait.now + duration IN
        wait' = [wait EXCEPT
                  !.now = now,
                  !.last_end = now,
                  !.queries = @ + 1,
                  !.failed = IF ok THEN @ ELSE @ + 1,
                  !.pc = IF ok THEN "returned"
                         ELSE IF now > wait.end_time THEN "raised"
                         ELSE "sleep"]
    /\ UNCHANGED notWait

\* time.sleep(1)
Sleep ==
    /\ wait.pc = "sleep"
    /\ wait' = [wait EXCEPT !.now = @ + 1, !.pc = "query"]
    /\ UNCHANGED notWait

NextWait ==
    \/ \E timeout \in 0..MaxTimeout : WaitStart(timeout)
    \/ \E ok \in BOOLEAN, duration \in 0..MaxQueryTime : Query(ok, duration)
    \/ Sleep

\* The loop is a single thread that is always scheduled again.
SpecWait == Init /\ [][NextWait]_vars /\ WF_vars(NextWait)

WaitSafe ==
    /\ wait.pc = "returned" => wait.queries = wait.failed + 1
    /\ wait.pc \in {"query", "sleep", "raised"} => wait.queries = wait.failed
    /\ wait.pc = "raised" => wait.now - wait.start > wait.timeout
    /\ (wait.pc = "query" /\ wait.queries > 0) => wait.now = wait.last_end + 1

\* C14: wait_for_postgresql returns at the first query that succeeds and
\* makes no further one; while every query fails it queries again one
\* second after the failure, raises TimeoutError only after more than
\* `timeout` seconds have passed since the call, and does end.
C14_WaitReturnsOrTimesOut ==
    /\ []WaitSafe
    /\ <>(wait.pc \in {"returned", "raised"})

\* TimeoutError after several failed queries under a positive timeout.
C14_Witness ==
    /\ wait.pc = "raised"
    /\ wait.timeout = MaxTimeout
    /\ wait.failed > 2

\* =====================================================================
\* sighup_supervisord: the reload signal and the status polls.

notReload == <<mainVars, privVars, waitVars, workVars, resolverVars,
               commandVars, configVars,
    raceVars>>

\* What `run-supervisorctl status` prints.
StatusOutputs == {"error: refused", "regiond RUNNING", "regiond STARTING"}

\* "error:" in output
HasError(output) == output = "error: refused"

\* What status can print in a state of the supervisor process: an error
\* while none listens (it is restarting, or gone), the programs otherwise.
StatusOf(process) ==
    IF process \in {"restarting", "none"}
    THEN {o \in StatusOutputs : HasError(o)}
    ELSE {o \in StatusOutputs : ~HasError(o)}

\* At any time the supervisor may be started (it writes its pid file), stop
\* cleanly (removing it) or die (leaving it behind).
SupervisorStarts ==
    /\ supervisor.process = "none"
    /\ supervisor' = [pidfile |-> TRUE, process |-> "running"]
    /\ UNCHANGED <<reload, notReload>>

SupervisorEnds(clean) ==
    /\ supervisor.process # "none"
    /\ supervisor' = [pidfile |-> ~clean, process |-> "none"]
    /\ UNCHANGED <<reload, notReload>>

\* After SIGHUP the supervisor stops its programs and starts over; until it
\* listens again status prints the error.
SupervisorRestarts ==
    /\ supervisor.process = "signalled"
    /\ supervisor' = [supervisor EXCEPT !.process = "restarting"]
    /\ UNCHANGED <<reload, notReload>>

SupervisorSettles ==
    /\ supervisor.process = "restarting"
    /\ supervisor' = [supervisor EXCEPT !.process = "running"]
    /\ UNCHANGED <<reload, notReload>>

\* pid = get_supervisord_pid(); if pid is None: return
ReloadGetPid ==
    /\ reload.pc = "idle"
    /\ reload' = [reload EXCEPT
                    !.pid = IF supervisor.pidfile THEN "pid" ELSE None,
                    !.pc = IF supervisor.pidfile THEN "kill" ELSE "returned"]
    /\ UNCHANGED <<supervisor, notReload>>

\* A variant that goes on to poll after ProcessLookupError.
ReloadKill_PollsAnyway ==
    /\ reload.pc = "kill"
    /\ reload' = [reload EXCEPT !.pc = "grace"]
    /\ UNCHANGED <<supervisor, notReload>>

\* os.kill(pid, signal.SIGHUP); ProcessLookupError returns.
ReloadKill ==
    /\ reload.pc = "kill"
    /\ IF supervisor.process = "none"
       THEN /\ reload' = [reload EXCEPT !.pc = "returned"]
            /\ UNCHANGED supervisor
       ELSE /\ reload' = [reload EXCEPT !.pc = "grace", !.sighups = 1]
            /\ supervisor' = [supervisor EXCEPT !.process = "signalled"]
    /\ UNCHANGED notReload

\* time.sleep(0.5), counted in half seconds.
ReloadGrace ==
    /\ reload.pc = "grace"
    /\ reload' = [reload EXCEPT !.pc = "poll", !.slept = 1]
    /\ UNCHANGED <<supervisor, notReload>>

\* A variant that gives up after MaxPolls polls.
ReloadPoll_GivesUp(output) ==
    /\ reload.pc = "poll"
    /\ output \in StatusOf(supervisor.process)
    /\ reload' = [reload EXCEPT
                    !.output = output,
                    !.polls = IF @ < MaxPolls THEN @ + 1 ELSE @,
                    !.pc = IF HasError(output) /\ reload.polls + 1 < MaxPolls
                           THEN "sleep" ELSE "returned"]
    /\ UNCHANGED <<supervisor, notReload>>

\* One run of `run-supervisorctl status` and the test of its output.
ReloadPoll(output) ==
    /\ reload.pc = "poll"
    /\ output \in StatusOf(supervisor.process)
    /\ reload' = [reload EXCEPT
                    !.output = output,
                    !.polls = IF @ < MaxPolls THEN @ + 1 ELSE @,
                    !.pc = IF HasError(output) THEN "sleep" ELSE "returned"]
    /\ UNCHANGED <<supervisor, notReload>>

\* A variant that does not poll again after the sleep.
ReloadSleep_NoRetry ==
    /\ reload.pc = "sleep"
    /\ reload' = [reload EXCEPT !.pc = "hung"]
    /\ UNCHANGED <<supervisor, notReload>>

\* time.sleep(1), counted in half seconds up to the bound of the polls.
ReloadSleep ==
    /\ reload.pc = "sleep"
    /\ reload' = [reload EXCEPT
                    !.pc = "poll",
                    !.slept = IF @ < 2 * MaxPolls THEN @ + 2 ELSE @]
    /\ UNCHANGED <<supervisor, notReload>>

\* The steps of sighup_supervisord itself.
ReloadStep ==
    \/ ReloadGetPid
    \/ ReloadKill
    \/ ReloadGrace
    \/ \E output \in StatusOutputs : ReloadPoll(output)
    \/ ReloadSleep

NextReload ==
    \/ SupervisorStarts
    \/ \E clean \in BOOLEAN : SupervisorEnds(clean)
    \/ SupervisorRestarts
    \/ SupervisorSettles
    \/ ReloadGetPid
    \/ ReloadKill
    \/ ReloadGrace
    \/ \E output \in StatusOutputs : ReloadPoll(output)
    \/ ReloadSleep

\* The caller is always scheduled again; the supervisor owes nothing.
SpecReload == Init /\ [][NextReload]_vars /\ WF_vars(ReloadStep)

\* C15: a reload that finds no pid file, or whose pid names no process, is
\* a no-op: its next step is the return, no status poll and no sleep has
\* been made, and the supervisor is left as it was.
C15_ReloadNoOp ==
    [][(/\ reload' # reload
        /\ \/ reload.pc = "idle" /\ ~supervisor.pidfile
           \/ reload.pc = "kill" /\ supervisor.process = "none")
       => (/\ reload'.pc = "returned"
           /\ reload'.polls = 0
           /\ reload'.slept = 0
           /\ reload'.sighups = 0
           /\ supervisor' = supervisor)]_vars

\* A pid file left behind by a supervisor that died: the signal found no
\* process and the reload returned.
C15_Witness ==
    /\ reload.pc = "returned"
    /\ reload.pid # None
    /\ reload.sighups = 0

\* C16: a reload that signalled a running supervisor returns only after a
\* status poll whose output has no `error:`; a poll whose output has it is
\* followed by a sleep and another poll, however many polls were made.
C16_ReturnsAfterCleanPoll ==
    /\ [](reload.pc = "returned" /\ reload.sighups = 1
            => reload.polls >= 1 /\ ~HasError(reload.output))
    /\ [][(reload' # reload /\ reload.pc = "poll" /\ HasError(reload'.output))
            => reload'.pc = "sleep"]_vars
    /\ [][(reload' # reload /\ reload.pc = "sleep")
            => reload'.pc = "poll"]_vars

\* A return after as many polls as are counted.
C16_Witness ==
    /\ reload.pc = "returned"
    /\ reload.sighups = 1
    /\ reload.polls = MaxPolls

StatusError == StatusOf(supervisor.process) \subseteq {"error: refused"}

\* C17: if from some time on the status output no longer has `error:`, the
\* reload returns; as long as every poll shows `error:` it does not.
C17_ReloadTermination ==
    /\ <>[](~StatusError) => <>(reload.pc = "returned")
    /\ [][(reload.pc = "poll" /\ StatusError) => reload'.pc # "returned"]_vars

\* The supervisor was restarting at a poll, then settled, and the reload
\* returned.
C17_Witness ==
    /\ reload.pc = "returned"
    /\ reload.sighups = 1
    /\ reload.polls = 2
    /\ supervisor.process = "running"

\* =====================================================================
\* perform_work: cmd in the calling thread, the spinner in a second one.

notWork == <<mainVars, privVars, waitVars, reloadVars, resolverVars,
             commandVars, configVars,
    raceVars>>

\* What cmd(*args, **kwargs) does: return a value or raise.
CmdResults == {"value", "raise"}

\* The number of glyphs of the spinner table.
SpinnerGlyphs == 8

\* perform_work is entered.  Off a terminal the message is printed once;
\* on one the Event is created and the thread started.
WorkCall(tty) ==
    /\ work.pc = "idle"
    /\ work' = [work EXCEPT !.pc = "cmd", !.tty = tty]
    /\ display' = IF tty THEN [display EXCEPT !.pc = "check"]
                  ELSE [display EXCEPT !.line = "msg"]
    /\ UNCHANGED notWork

\* cmd(*args, **kwargs).  Off a terminal its outcome is the outcome of
\* perform_work; on one a value is assigned to ret and the finally clause
\* comes first.
WorkCmd(result) ==
    /\ work.pc = "cmd"
    /\ work' = [work EXCEPT
                  !.calls = @ + 1,
                  !.result = result,
                  !.ret = IF result = "raise" THEN @ ELSE result,
                  !.outcome = IF work.tty THEN @ ELSE result,
                  !.pc = IF work.tty THEN "finally" ELSE "done"]
    /\ UNCHANGED <<display, notWork>>

\* evnt.set()
WorkSetEvent ==
    /\ work.pc = "finally"
    /\ work' = [work EXCEPT !.evnt = TRUE, !.pc = "join"]
    /\ UNCHANGED <<display, notWork>>

\* A variant that returns None where cmd raised.
WorkJoin_SwallowsFailure ==
    /\ work.pc = "join"
    /\ display.pc = "done"
    /\ work' = [work EXCEPT !.pc = "clear_line"]
    /\ UNCHANGED <<display, notWork>>

\* t.join() returns once the thread has ended; an exception of cmd then
\* leaves perform_work, a return value goes on to clear_line().
WorkJoin ==
    /\ work.pc = "join"
    /\ display.pc = "done"
    /\ work' = IF work.result = "raise"
               THEN [work EXCEPT !.pc = "done", !.outcome = "raise"]
               ELSE [work EXCEPT !.pc = "clear_line"]
    /\ UNCHANGED <<display, notWork>>

\* clear_line() writes "\r" and COLUMNS spaces (none if COLUMNS is not in
\* the environment), then `return ret`.
WorkClearLine(columns_set) ==
    /\ work.pc = "clear_line"
    /\ work' = [work EXCEPT !.pc = "done", !.outcome = work.ret]
    /\ display' = [display EXCEPT
                     !.line = IF columns_set THEN "blank" ELSE @]
    /\ UNCHANGED notWork

\* while not evnt.is_set()
DisplayCheck ==
    /\ display.pc = "check"
    /\ display' = [display EXCEPT
                     !.pc = IF work.evnt THEN "clear" ELSE "write"]
    /\ UNCHANGED <<work, notWork>>

\* The spinner glyph and the message over the current line; idx goes round.
DisplayWrite ==
    /\ display.pc = "write"
    /\ display' = [display EXCEPT
                     !.pc = "sleep",
                     !.line = "spinner",
                     !.idx = (@ + 1) % SpinnerGlyphs,
                     !.writes = IF @ < MaxWrites THEN @ + 1 ELSE @]
    /\ UNCHANGED <<work, notWork>>

\* time.sleep(0.25)
DisplaySleep ==
    /\ display.pc = "sleep"
    /\ display' = [display EXCEPT !.pc = "check"]
    /\ UNCHANGED <<work, notWork>>

\* A variant whose thread ends without blanking its line.
DisplayClear_NoBlank ==
    /\ display.pc = "clear"
    /\ display' = [display EXCEPT !.pc = "done"]
    /\ UNCHANGED <<work, notWork>>

\* The thread's last write: "\r" and len(msg) + 4 spaces, the width of
\* what it wrote before.
DisplayClear ==
    /\ display.pc = "clear"
    /\ display' = [display EXCEPT !.pc = "done", !.line = "blank"]
    /\ UNCHANGED <<work, notWork>>

WorkThread ==
    \/ \E tty \in BOOLEAN : WorkCall(tty)
    \/ \E result \in CmdResults : WorkCmd(result)
    \/ WorkSetEvent
    \/ WorkJoin
    \/ \E columns_set \in BOOLEAN : WorkClearLine(columns_set)

DisplayThread ==
    \/ DisplayCheck
    \/ DisplayWrite
    \/ DisplaySleep
    \/ DisplayClear

NextWork ==
    \/ \E tty \in BOOLEAN : WorkCall(tty)
    \/ \E result \in CmdResults : WorkCmd(result)
    \/ WorkSetEvent
    \/ WorkJoin
    \/ \E columns_set \in BOOLEAN : WorkClearLine(columns_set)
    \/ DisplayCheck
    \/ DisplayWrite
    \/ DisplaySleep
    \/ DisplayClear

\* Both threads are scheduled again and again, and cmd ends.
SpecWork ==
    /\ Init
    /\ [][NextWork]_vars
    /\ WF_vars(WorkThread)
    /\ WF_vars(DisplayThread)

\* C18: perform_work calls cmd exactly once and ends as cmd ended, with its
\* value or its exception, on a terminal and off one.
C18_OutcomeOfCmd ==
    /\ work.calls <= 1
    /\ work.pc = "done" => work.calls = 1 /\ work.outcome = work.result

\* cmd raised under the spinner and the exception reached the caller.
C18_Witness ==
    /\ work.pc = "done"
    /\ work.tty
    /\ work.outcome = "raise"
    /\ display.writes > 0

\* C19: on a terminal, when perform_work ends the stop signal is set, the
\* display thread has ended and the line is blank; nothing is written by
\* the display thread afterwards; once the signal is set the display thread
\* does end.
C19_DisplayStopsBeforeOutcome ==
    /\ [](work.tty /\ work.pc = "done"
            => work.evnt /\ display.pc = "done" /\ display.line = "blank")
    /\ [][work.pc = "done" => display' = display]_vars
    /\ work.evnt ~> display.pc = "done"

\* cmd returned after the spinner was written several times, COLUMNS is not
\* set, and the line is blank.
C19_Witness ==
    /\ work.pc = "done"
    /\ work.tty
    /\ work.outcome = "value"
    /\ display.writes = MaxWrites
    /\ display.line = "blank"

\* =====================================================================
\* get_database_settings on every combination of its inputs.

notResolver == <<mainVars, privVars, waitVars, reloadVars, workVars,
                  commandVars, configVars,
    raceVars>>

\* The command line has been parsed into options.
ResolverOptions(options) ==
    /\ resolution.status = "none"
    /\ query.parsed = FALSE
    /\ query' = [query EXCEPT !.options = options, !.parsed = TRUE]
    /\ UNCHANGED <<resolution, notResolver>>

\* get_database_settings(options) is called once.
ResolverCall(lines, socket_exists) ==
    /\ resolution.status = "none"
    /\ query.parsed
    /\ query' = [query EXCEPT !.lines = lines,
                              !.socket_exists = socket_exists]
    /\ resolution' = get_database_settings(query.options, lines,
                                           socket_exists)
    /\ UNCHANGED notResolver

\* The lines typed at the prompts of the call: two distinct values, the
\* empty line and the help token.
ResolverLines ==
    UNION {[1..n -> TypedLines \cup {"y"}] : n \in 0..MaxLines}

NextResolver ==
    \/ \E options \in AllDbOptions : ResolverOptions(options)
    \/ \E lines \in ResolverLines, socket_exists \in BOOLEAN :
            ResolverCall(lines, socket_exists)

SpecResolver == Init /\ [][NextResolver]_vars

\* The call has been made.
Resolved == resolution.status # "none"

\* One of --database-host, -name, -user, -pass, -port was on the command
\* line, with whatever value.
DiscreteFlagGiven ==
    \/ \E k \in {"database_host", "database_name", "database_user",
                 "database_pass"} : query.options[k] # None
    \/ query.options.database_port # NoPort

\* C20, as stated: with --database-uri and one of the discrete flags on the
\* command line the call raises DatabaseSettingsError and returns no
\* settings.
C20_UriWithFlagsRejected ==
    (Resolved /\ query.options.database_uri # None /\ DiscreteFlagGiven)
        => resolution.status = "DatabaseSettingsError"

\* C20, amended: with a non-empty --database-uri and one of the discrete
\* flags on the command line the call raises the DatabaseSettingsError of
\* the conflict and returns no settings.
C20_NonEmptyUriWithFlagsRejected ==
    (Resolved /\ query.options.database_uri \notin {None, ""}
        /\ DiscreteFlagGiven)
        => resolution = DbError("conflict", {})

\* A well-formed URI together with --database-port alone.
C20_Witness ==
    /\ Resolved
    /\ query.options = [NoDbOptions EXCEPT !.database_uri = UriFull,
                                            !.database_port = 5432]
    /\ resolution.kind = "conflict"

\* The call took the branch of --database-uri: no discrete flag was given.
UriPath == Resolved /\ ~DiscreteFlagGiven

\* The URI that branch works on: the flag, or the line accepted at the
\* prompt (EOF if the input ended first).
GivenUri ==
    IF query.options.database_uri # None
    THEN query.options.database_uri
    ELSE required_prompt(query.lines,
                         IF query.socket_exists THEN MAAS_TEST_DB_URI
                         ELSE None).value

\* The settings the sentinel stands for.
TestDbSettings ==
    ("database_host" :> TestDbSocket @@ "database_name" :> "maasdb"
     @@ "database_user" :> "maas" @@ "database_pass" :> None)

\* C21: a URI that is neither `maas-test-db:///` nor begins with
\* `postgres://` is rejected by the scheme check; every other one goes on
\* to parse_dsn; the sentinel resolves to the settings of the local test
\* database socket.
C21_SchemeCheck ==
    (UriPath /\ GivenUri # EOF) =>
        /\ GivenUri \in {"", UserValue, UriMysql}
                => resolution = DbError("scheme", {})
        /\ GivenUri \in ModelUris \ {UriMysql}
                => resolution.kind # "scheme"
        /\ GivenUri = MAAS_TEST_DB_URI => resolution = DbOk(TestDbSettings)

\* The sentinel, taken as the default of the prompt, resolved.
C21_Witness ==
    /\ UriPath
    /\ query.options.database_uri = None
    /\ query.socket_exists
    /\ query.lines = <<"">>
    /\ resolution.status = "ok"
    /\ resolution.settings["database_name"] = "maasdb"

\* What parse_dsn made of the URI of the call, the sentinel rewritten.
ParsedUri ==
    parse_dsn(IF GivenUri = MAAS_TEST_DB_URI THEN test_db_uri ELSE GivenUri)

\* The URI passed the scheme check and parse_dsn accepted it.
UriParsed ==
    /\ UriPath
    /\ GivenUri \in ModelUris \ {UriMysql}
    /\ ParsedUri # ProgrammingError

\* The keywords of the parsed URI outside user, password, host, dbname,
\* port.
ExtraParams ==
    {k \in DOMAIN ParsedUri :
        k \notin {"user", "password", "host", "dbname", "port"}}

\* C22: a parsed URI with a keyword outside user, password, host, dbname,
\* port makes the call raise the DatabaseSettingsError that names all such
\* keywords, and no settings are returned.
C22_UnsupportedParamsRejected ==
    (UriParsed /\ ExtraParams # {}) =>
        resolution = DbError("unsupported", ExtraParams)

\* Two unsupported keywords, both named.
C22_Witness ==
    /\ UriParsed
    /\ GivenUri = UriTwoExtras
    /\ resolution.detail = {"sslmode", "connect_timeout"}

\* The settings the claim derives from a parsed URI whose keywords are all
\* supported and which has a user; port is the number the URI wrote.
MappedSettings(port) ==
    LET base ==
            ("database_host" :> (IF "host" \in DOMAIN ParsedUri
                                 THEN ParsedUri["host"] ELSE "localhost")
             @@ "database_name" :> (IF "dbname" \in DOMAIN ParsedUri
                                    THEN ParsedUri["dbname"]
                                    ELSE ParsedUri["user"])
             @@ "database_user" :> ParsedUri["user"]
             @@ "database_pass" :> (IF "password" \in DOMAIN ParsedUri
                                    THEN ParsedUri["password"] ELSE None))
    IN  IF "port" \in DOMAIN ParsedUri
        THEN base @@ ("database_port" :> port)
        ELSE base

\* The number a port string of the model's URIs writes, if it writes one.
PortNumber == IF ParsedUri["port"] = "5432" THEN 5432 ELSE NoPort

\* C23: a parsed URI with supported keywords only is rejected if it has no
\* user and otherwise resolves to host, dbname, user, password and port as
\* database_host, database_name, database_user, database_pass and
\* database_port, the port an integer and present only if the URI has one,
\* a missing host being localhost and a missing dbname the user.
C23_UriMapping ==
    (UriParsed /\ ExtraParams = {}) =>
        IF "user" \notin DOMAIN ParsedUri
        THEN resolution = DbError("nouser", {})
        ELSE /\ resolution.status = "ok"
             /\ resolution.settings =
                    MappedSettings(IF "port" \in DOMAIN ParsedUri
                                   THEN PortNumber ELSE NoPort)

\* C23 for the URIs whose port, if any, is a decimal number.
C23_MappingForDecimalPort ==
    (UriParsed /\ ExtraParams = {} /\ GivenUri # UriBadPort) =>
        IF "user" \notin DOMAIN ParsedUri
        THEN resolution = DbError("nouser", {})
        ELSE resolution =
                DbOk(MappedSettings(IF "port" \in DOMAIN ParsedUri
                                    THEN PortNumber ELSE NoPort))

\* The call took the branch of the discrete flags.
FlagsPath ==
    /\ Resolved
    /\ DiscreteFlagGiven
    /\ query.options.database_uri \in {None, ""}

\* The typed lines a prompt accepts as a value, in order.
AcceptedLines == SelectSeq(query.lines, LAMBDA l : l \notin {"", "help"})

MandatoryFlags ==
    <<"database_host", "database_name", "database_user", "database_pass">>

\* The mandatory fields whose flag is unset or empty, in the order of
\* their prompts.
UnsetFlags ==
    SelectSeq(MandatoryFlags, LAMBDA k : query.options[k] \in {None, ""})

\* The position of field k among the prompted ones.
PromptOf(k) == CHOOSE i \in DOMAIN UnsetFlags : UnsetFlags[i] = k

\* Each mandatory field from its flag, or from the line accepted at its
\* prompt; the port if it was given.
FlagSettings ==
    LET base == [k \in {MandatoryFlags[i] : i \in DOMAIN MandatoryFlags} |->
                    IF query.options[k] \in {None, ""}
                    THEN AcceptedLines[PromptOf(k)]
                    ELSE query.options[k]]
    IN  IF query.options.database_port # NoPort
        THEN base @@ ("database_port" :> query.options.database_port)
        ELSE base

\* C24: with a discrete flag and no URI the call neither prompts for a URI
\* nor parses one: every mandatory field without a value is prompted for
\* until a non-empty line is typed, the others keep their flag, and
\* database_port is in the result only if --database-port was given.
C24_FlagsPath ==
    FlagsPath =>
        IF Len(AcceptedLines) < Len(UnsetFlags)
        THEN resolution = DbEOF
        ELSE resolution = DbOk(FlagSettings)

\* Host and name from flags, an empty --database-user and no password:
\* user and password are the two lines typed, and there is no port.
C24_Witness ==
    /\ FlagsPath
    /\ query.options = [NoDbOptions EXCEPT !.database_host = UserValue,
                                            !.database_name = UserValue,
                                            !.database_user = ""]
    /\ query.lines = <<"y", UserValue>>
    /\ resolution.status = "ok"
    /\ resolution.settings["database_user"] = "y"
    /\ resolution.settings["database_pass"] = UserValue
    /\ "database_port" \notin DOMAIN resolution.settings

\* =====================================================================
\* Properties of init and the other commands, continued.

\* Every settings mapping get_database_settings can return to init.
ResolverSettings ==
    {get_database_settings(o, l, e).settings :
        o \in InitDbOptions, l \in Lines, e \in BOOLEAN}

DatabaseKeys ==
    {"database_host", "database_name", "database_user", "database_pass",
     "database_port"}

\* C25: the step of init that derives the database settings takes the one
\* derivation of the target mode: for all the fixed local settings with the
\* random password, whatever the flags; for region and region+rack what
\* get_database_settings returns, or its failure; for rack and none the
\* empty mapping, and then no database key of the ConfigStore is written.
C25_OneDerivationByMode ==
    /\ [][(pc = "resolve_db" /\ pc' # pc) =>
            CASE inv.mode = "all" ->
                    /\ pc' = "resolve_url"
                    /\ database_settings' =
                        ("database_host" :> DbSocketDir
                         @@ "database_name" :> "maasdb"
                         @@ "database_user" :> "maas"
                         @@ "database_pass" :> RandomPass)
              [] inv.mode \in {"region", "region+rack"} ->
                    \/ /\ pc' = "resolve_url"
                       /\ database_settings' \in ResolverSettings
                       /\ DOMAIN database_settings' # {}
                    \/ /\ pc' = "idle"
                       /\ outcome'.status = "fail"
              [] OTHER ->
                    /\ pc' = "resolve_url"
                    /\ database_settings' = NoConfig]_vars
    /\ [][(inv.cmd = "init" /\ inv.mode \in {"rack", "none"} /\ inv' = inv)
            => \A k \in DatabaseKeys :
                ConfigGet(config', k) = ConfigGet(config, k)
                /\ (k \in DOMAIN config' <=> k \in DOMAIN config)]_vars

\* init all with flags on the command line: the settings are the local
\* ones.
C25_Witness ==
    /\ inv.cmd = "init"
    /\ inv.mode = "all"
    /\ pc = "resolve_url"
    /\ database_settings["database_host"] = DbSocketDir
    /\ database_settings["database_pass"] = RandomPass

\* C26: an init whose database settings cannot be resolved ends as a
\* failure, and from its start to that end no step has written Mode, the
\* ConfigStore, the secret or the supervisor configuration, nor rendered,
\* signalled or stopped anything.
C26_ResolutionFailureChangesNothing ==
    /\ [][(\/ pc \in {"confirm_init", "confirm_db", "resolve_db"}
           \/ pc = "idle" /\ inv'.cmd = "init" /\ pc' # "idle")
            => persistent' = persistent /\ trace' = <<>>]_vars
    /\ [][(pc = "resolve_db" /\ pc' = "idle")
            => outcome' = [status |-> "fail", at |-> "resolve_db"]]_vars

\* init region failed in the resolution on a controller that runs as
\* region+rack: its services are still rendered.
C26_Witness ==
    /\ InitEnded("fail")
    /\ outcome.at = "resolve_db"
    /\ inv.mode = "region"
    /\ Mode = "region+rack"
    /\ supConf = render_supervisord("region+rack")

\* The steps of _finalize_init that the trace records, in the order of the
\* trace.
FinalizeSteps ==
    {"init_db", "render_target", "set_current_mode", "wait_for_postgresql",
     "migrate_db", "init_maas"}

IsFinalizeStep(event) == event \in FinalizeSteps

\* The order _finalize_init prescribes for a target mode.
FinalizeOrder(mode) ==
    CASE mode = "all" ->
            <<"init_db", "render_target", "set_current_mode",
              "wait_for_postgresql", "migrate_db", "init_maas">>
      [] mode \in {"region", "region+rack"} ->
            <<"render_target", "set_current_mode", "migrate_db">>
      [] OTHER -> <<"render_target", "set_current_mode">>

IsPrefix(s, t) == Len(s) <= Len(t) /\ s = SubSeq(t, 1, Len(s))

FinalizeTrace == SelectSeq(trace, IsFinalizeStep)

\* C28: the finalization of init runs its steps in a fixed order.  For all:
\* database initialization, services started, readiness wait, migrations,
\* admin creation.  For region and region+rack: services started, then
\* migrations, with no database initialization and no admin creation.  For
\* rack and none: services started only.  At every moment of an init the
\* steps taken so far are a prefix of that order, nothing after the start
\* of the services has run while their reload is pending, and a successful
\* init has taken all of them.
C28_FinalizeOrder ==
    inv.cmd = "init" =>
        /\ IsPrefix(FinalizeTrace, FinalizeOrder(inv.mode))
        /\ FinalReloadPending =>
                Range(trace) \cap {"wait_for_postgresql", "migrate_db",
                                   "init_maas"} = {}
        /\ InitEnded("ok") => FinalizeTrace = FinalizeOrder(inv.mode)

\* An init to all has ended well, having created the admin last.
C28_Witness ==
    /\ InitEnded("ok")
    /\ inv.mode = "all"
    /\ FinalizeTrace = FinalizeOrder("all")
    /\ trace[Len(trace)] = "init_maas"

\* =================================================================
\* The commands and the user who invokes them
\* =================================================================
notCommand == <<mainVars, privVars, waitVars, reloadVars, workVars,
                resolverVars, configVars,
    raceVars>>

\* os.getuid() of the invoking user: root and an ordinary user.
Uids == {0, 1000}

\* What process.wait() returns: an exit code, or minus the number of the
\* signal that killed the tool.
ReturnCodes == {0, 1, 3, -9}

\* What `maas-region dbupgrade` writes.
MigrateOutputs == {"", "Applying migrations... OK", "OperationalError"}

\* sys.exit(code)
SysExit(code) == [kind |-> "exit", code |-> code, what |-> ""]

\* raise SystemExit(message): the message on stderr, exit status 1.
SystemExit(message) == [kind |-> "exit", code |-> 1, what |-> message]

\* An exception nobody catches: SnappyCommand.__call__ re-raises it.
Uncaught(exception) == [kind |-> "raise", code |-> 1, what |-> exception]

\* handle() returns.
Returns == [kind |-> "return", code |-> 0, what |-> ""]

MustBeRoot == "must be run by root"

Invoked(cmd, uid, mode, current_mode, configure, isatty) ==
    [cmd |-> cmd, uid |-> uid, mode |-> mode, current_mode |-> current_mode,
     configure |-> configure, isatty |-> isatty]

Entered == [pc |-> "idle", effects |-> <<>>, printed |-> <<>>,
            ret |-> 0, output |-> "", exit |-> Running]

At(h, position) == [h EXCEPT !.pc = position]

End(h, exit) == [h EXCEPT !.pc = "ended", !.exit = exit]

Did(h, effect) == [h EXCEPT !.effects = Append(@, effect)]

Said(h, lines) == [h EXCEPT !.printed = @ \o lines]

CanInvoke == handler.pc \in {"idle", "ended"}

\* cmd_init.handle: the test of os.getuid().
InitCall(uid, mode, isatty) ==
    /\ CanInvoke
    /\ command' = Invoked("init", uid, mode, "none", FALSE, isatty)
    /\ handler' = IF uid # 0
                  THEN End(Entered, SystemExit(MustBeRoot))
                  ELSE At(Entered, "init_handle")
    /\ UNCHANGED notCommand

\* cmd_init.handle from the mode file to start_services, the steps that Spec
\* takes one by one: they end the command, or _finalize_init goes on.
InitHandle(started) ==
    /\ handler.pc = "init_handle"
    /\ LET h == Did(handler, "handle")
       IN  handler' =
               IF ~started THEN End(h, Uncaught("Exception"))
               ELSE IF AfterStart(command.mode) = "done" THEN End(h, Returns)
               ELSE At(h, AfterStart(command.mode))
    /\ UNCHANGED <<command, notCommand>>

\* wait_for_postgresql(), of _finalize_init and of `migrate --configure`.
WaitStep(ready) ==
    /\ handler.pc = "wait_pg"
    /\ LET h == Did(handler, "wait_for_postgresql")
       IN  handler' = IF ready THEN At(h, "migrate")
                      ELSE End(h, Uncaught("TimeoutError"))
    /\ UNCHANGED <<command, notCommand>>

\* Variant: a failing captured run exits 1.
migrate_db_ExitsOne(capture, returncode, output) ==
    IF capture
    THEN IF returncode # 0
         THEN [printed |-> <<"Failed to perfom migrations:", output, "">>,
               exit |-> SysExit(1)]
         ELSE [printed |-> <<>>, exit |-> Running]
    ELSE [printed |-> <<output>>,
          exit |-> IF returncode # 0 THEN Uncaught("CalledProcessError")
                   ELSE Running]

\* migrate_db(capture) when the tool wrote `output` and ended with `ret`:
\* what appears on the terminal and whether the call returns (Running).
\* Captured, the output is piped and printed only after a failure;
\* otherwise the tool writes on the terminal itself and check_call raises.
migrate_db(capture, returncode, output) ==
    IF capture
    THEN IF returncode # 0
         THEN [printed |-> <<"Failed to perfom migrations:", output, "">>,
               exit |-> SysExit(returncode)]
         ELSE [printed |-> <<>>, exit |-> Running]
    ELSE [printed |-> <<output>>,
          exit |-> IF returncode # 0 THEN Uncaught("CalledProcessError")
                   ELSE Running]

\* capture=sys.stdout.isatty() in _finalize_init, the default in cmd_migrate.
Capture == command.cmd = "init" /\ command.isatty

\* The migration tool runs; then `sys.exit(migrate_db())` of cmd_migrate,
\* init_maas for all, the closing message for region and region+rack.
MigrateStep(returncode, output) ==
    /\ handler.pc = "migrate"
    /\ LET call == migrate_db(Capture, returncode, output)
           h == Said([Did(handler, "dbupgrade")
                          EXCEPT !.ret = returncode, !.output = output],
                     call.printed)
       IN  handler' =
               IF call.exit # Running THEN End(h, call.exit)
               ELSE IF command.cmd = "migrate" THEN End(h, SysExit(0))
               ELSE IF command.mode = "all" THEN At(h, "init_maas")
               ELSE End(Said(h, <<"MAAS has been set up.">>), Returns)
    /\ UNCHANGED <<command, notCommand>>

\* init_maas(options)
AdminStep(ok) ==
    /\ handler.pc = "init_maas"
    /\ LET h == Did(handler, "init_maas")
       IN  handler' = End(h, IF ok THEN Returns
                             ELSE Uncaught("CalledProcessError"))
    /\ UNCHANGED <<command, notCommand>>

\* cmd_config.handle: the test of os.getuid().
ConfigCall(uid) ==
    /\ CanInvoke
    /\ command' = Invoked("config", uid, "none", "none", FALSE, FALSE)
    /\ handler' = IF uid # 0
                  THEN End(Entered, SystemExit(MustBeRoot))
                  ELSE At(Entered, "config_handle")
    /\ UNCHANGED notCommand

\* The rest of cmd_config.handle, which is CmdConfig of Spec.
ConfigHandle(code) ==
    /\ handler.pc = "config_handle"
    /\ handler' = End(Did(handler, "handle"),
                      IF code = 0 THEN Returns ELSE SysExit(code))
    /\ UNCHANGED <<command, notCommand>>

\* cmd_status.handle up to the launch of `run-supervisorctl status`.
StatusCall(uid, current_mode) ==
    /\ CanInvoke
    /\ command' = Invoked("status", uid, "none", current_mode, FALSE, FALSE)
    /\ handler' =
           IF uid # 0 THEN End(Entered, SystemExit(MustBeRoot))
           ELSE IF current_mode = "none"
           THEN End(Said(Entered, <<"MAAS is not configured">>), SysExit(1))
           ELSE At(Did(Entered, "supervisorctl status"), "status")
    /\ UNCHANGED notCommand

Restarting == "MAAS supervisor is currently restarting."

\* process.wait() and the branches on ret and on "error:" in output.
StatusWait(returncode, output) ==
    /\ handler.pc = "status"
    /\ LET h == [handler EXCEPT !.ret = returncode, !.output = output]
       IN  handler' =
               IF returncode = 0 THEN End(Said(h, <<output>>), Returns)
               ELSE IF HasError(output)
               THEN End(Said(h, <<Restarting>>), SysExit(-1))
               ELSE End(Said(h, <<output>>), SysExit(returncode))
    /\ UNCHANGED <<command, notCommand>>

\* cmd_migrate.handle up to wait_for_postgresql or migrate_db.
MigrateCall(uid, current_mode, configure) ==
    /\ CanInvoke
    /\ command' = Invoked("migrate", uid, "none", current_mode, configure,
                          FALSE)
    /\ handler' =
           IF uid # 0 THEN End(Entered, SystemExit(MustBeRoot))
           ELSE IF configure
           THEN (IF current_mode = "all" THEN At(Entered, "wait_pg")
                 ELSE IF current_mode \in {"region", "region+rack"}
                 THEN At(Entered, "migrate")
                 ELSE End(Entered, SysExit(0)))
           ELSE IF current_mode = "none"
           THEN End(Said(Entered, <<"MAAS is not configured">>), SysExit(1))
           ELSE IF current_mode = "rack"
           THEN End(Said(Entered, <<"No migrations to perform.">>),
                    SysExit(1))
           ELSE At(Entered, "migrate")
    /\ UNCHANGED notCommand

\* cmd_reconfigure_supervisord.handle: get_current_mode(), with no test of
\* os.getuid().
ReconfigureCall(uid, current_mode) ==
    /\ CanInvoke
    /\ command' = Invoked("reconfigure-supervisord", uid, "none",
                          current_mode, FALSE, FALSE)
    /\ handler' = At(Entered, "render")
    /\ UNCHANGED notCommand

\* render_supervisord(get_current_mode()): open(conf_path, "w").  For a
\* user other than root the permissions of the file decide.
ReconfigureRender(permitted) ==
    /\ handler.pc = "render"
    /\ handler' = IF command.uid = 0 \/ permitted
                  THEN At(Did(handler, "render_supervisord"), "sighup")
                  ELSE End(handler, Uncaught("PermissionError"))
    /\ UNCHANGED <<command, notCommand>>

\* sighup_supervisord(): no pid returns; os.kill(pid, SIGHUP) needs the
\* permission to signal the supervisor.
ReconfigureSighup(pid, permitted) ==
    /\ handler.pc = "sighup"
    /\ handler' = IF pid # "live" THEN End(handler, Returns)
                  ELSE IF command.uid = 0 \/ permitted
                  THEN End(Did(handler, "SIGHUP"), Returns)
                  ELSE End(handler, Uncaught("PermissionError"))
    /\ UNCHANGED <<command, notCommand>>

NextCommand ==
    \/ \E uid \in Uids, mode \in Modes, isatty \in BOOLEAN :
            InitCall(uid, mode, isatty)
    \/ \E started \in BOOLEAN : InitHandle(started)
    \/ \E ready \in BOOLEAN : WaitStep(ready)
    \/ \E returncode \in ReturnCodes, output \in MigrateOutputs :
            MigrateStep(returncode, output)
    \/ \E ok \in BOOLEAN : AdminStep(ok)
    \/ \E uid \in Uids : ConfigCall(uid)
    \/ \E code \in {0, 1} : ConfigHandle(code)
    \/ \E uid \in Uids, current_mode \in Modes :
            StatusCall(uid, current_mode)
    \/ \E returncode \in ReturnCodes, output \in StatusOutputs :
            StatusWait(returncode, output)
    \/ \E uid \in Uids, current_mode \in Modes, configure \in BOOLEAN :
            MigrateCall(uid, current_mode, configure)
    \/ \E uid \in Uids, current_mode \in Modes :
            ReconfigureCall(uid, current_mode)
    \/ \E permitted \in BOOLEAN : ReconfigureRender(permitted)
    \/ \E pid \in {"nofile", "stale", "live"}, permitted \in BOOLEAN :
            ReconfigureSighup(pid, permitted)

SpecCommand == Init /\ [][NextCommand]_vars

\* The command has ended, by a return, an exit or an exception.
Ended == handler.pc = "ended"

NonRoot == command.cmd # "" /\ command.uid # 0

\* The commands the specification calls privileged.
PrivilegedCommands ==
    {"init", "config", "migrate", "status", "reconfigure-supervisord"}

\* C27: a privileged command (init, config, migrate, status and the hidden
\* reconfigure-supervisord) invoked by a user other than root is rejected
\* before any side effect: at no moment has it written anything, sent a
\* signal or launched a subprocess, and it ends with the message that it
\* must be run by root.
C27_NonRootRejected ==
    (NonRoot /\ command.cmd \in PrivilegedCommands) =>
        /\ handler.effects = <<>>
        /\ Ended => handler.exit = SystemExit(MustBeRoot)

\* The same for the four commands that test os.getuid().
C27_CheckedCommandsRejected ==
    (NonRoot /\ command.cmd \in {"init", "config", "migrate", "status"}) =>
        /\ Ended
        /\ handler.effects = <<>>
        /\ handler.exit = SystemExit(MustBeRoot)

\* The migration tool has run and ended in this invocation.
Migrated == "dbupgrade" \in Range(handler.effects)

AdminCreated == "init_maas" \in Range(handler.effects)

\* C29: migrate_db by capture mode.  Captured, a failing tool makes the
\* process exit with the tool's exit code after the buffered output has
\* been shown; a succeeding one shows nothing and the caller goes on (to the
\* admin creation for all, to its return for region and region+rack).
\* Uncaptured, a failing tool aborts the command at once with an exception.
\* In neither case does a failure let the admin creation run.
C29_MigrateByCapture ==
    Migrated =>
        /\ (Capture /\ handler.ret # 0) =>
                /\ Ended
                /\ handler.exit = SysExit(handler.ret)
                /\ handler.printed = <<"Failed to perfom migrations:",
                                       handler.output, "">>
                /\ ~AdminCreated
        /\ (Capture /\ handler.ret = 0) =>
                IF command.mode = "all"
                THEN /\ handler.printed = <<>>
                     /\ handler.pc = "init_maas" \/ AdminCreated
                ELSE /\ handler.printed = <<"MAAS has been set up.">>
                     /\ Ended /\ handler.exit = Returns
        /\ (~Capture /\ handler.ret # 0) =>
                /\ Ended
                /\ handler.exit = Uncaught("CalledProcessError")
                /\ ~AdminCreated

\* An init to all on a terminal whose migrations failed with code 3: the
\* output of the tool was shown and the process exited 3.
C29_Witness ==
    /\ Migrated /\ Capture /\ Ended
    /\ command.mode = "all"
    /\ handler.ret = 3
    /\ handler.output = "OperationalError"
    /\ handler.exit = SysExit(3)
    /\ handler.printed[2] = "OperationalError"

\* `status` was run by root and has ended.
StatusEnded == command.cmd = "status" /\ command.uid = 0 /\ Ended

StatusQueried == "supervisorctl status" \in Range(handler.effects)

\* C30: the exit of `status`.  With Mode none it exits 1 without querying
\* the supervisor.  Otherwise it exits -1 exactly when the output of the
\* status query contains "error:", and in every other case its exit code is
\* that of the subprocess.
C30_StatusExit ==
    StatusEnded =>
        IF command.current_mode = "none"
        THEN handler.exit = SysExit(1) /\ ~StatusQueried
        ELSE /\ StatusQueried
             /\ handler.exit.code = -1 <=> HasError(handler.output)
             /\ ~HasError(handler.output) => handler.exit.code = handler.ret

\* What the code does: the test for "error:" is made only when the
\* subprocess exited with a code other than 0.
C30_StatusExitByReturnCode ==
    StatusEnded =>
        IF command.current_mode = "none"
        THEN handler.exit = SysExit(1) /\ ~StatusQueried
        ELSE /\ StatusQueried
             /\ handler.exit.code = -1
                    <=> (handler.ret # 0 /\ HasError(handler.output))
             /\ ~(handler.ret # 0 /\ HasError(handler.output))
                    => handler.exit.code = handler.ret

\* `migrate` was run by root and has ended.
MigrateEnded == command.cmd = "migrate" /\ command.uid = 0 /\ Ended

Waited == "wait_for_postgresql" \in Range(handler.effects)

\* What `migrate` does apart from the exit code of a failing tool.
MigrateBranches ==
    /\ (~command.configure /\ command.current_mode \in {"none", "rack"}) =>
            handler.exit = SysExit(1) /\ ~Migrated
    /\ (command.configure /\ command.current_mode \in {"none", "rack"}) =>
            handler.exit = SysExit(0) /\ ~Migrated
    /\ (command.configure /\ command.current_mode = "all" /\ Migrated) =>
            handler.effects = <<"wait_for_postgresql", "dbupgrade">>
    /\ (command.configure /\ command.current_mode = "all" /\ ~Migrated) =>
            Waited /\ handler.exit = Uncaught("TimeoutError")
    /\ (command.current_mode \in {"region", "region+rack"}
            \/ (~command.configure /\ command.current_mode = "all")) =>
            handler.effects = <<"dbupgrade">>
    /\ (Migrated /\ handler.ret = 0) => handler.exit = SysExit(0)

\* C31: the exit status of `migrate`.  Without --configure it exits 1 and
\* never runs the migration tool when Mode is none or rack, and in region,
\* region+rack and all it runs the tool and exits with the code of a failing
\* tool, 0 on success.  With --configure it exits 0 without running the tool
\* in rack and none, and in all it runs the migrations only after the
\* readiness wait has succeeded.
C31_MigrateExit ==
    MigrateEnded =>
        /\ MigrateBranches
        /\ (Migrated /\ handler.ret # 0) =>
                handler.exit.kind = "exit" /\ handler.exit.code = handler.ret

\* What the code does with a failing tool: check_call raises.
C31_MigrateExitFailureRaises ==
    MigrateEnded =>
        /\ MigrateBranches
        /\ (Migrated /\ handler.ret # 0) =>
                handler.exit = Uncaught("CalledProcessError")

\* Not a value a required prompt may return.
NoValue == {None, "", "help"}

\* The options of init have been resolved up to maas_url / the secret.
UrlResolved ==
    inv.cmd = "init"
    /\ pc \notin {"idle", "confirm_init", "confirm_db", "resolve_db",
                  "resolve_url"}

SecretResolved == UrlResolved /\ pc # "resolve_secret"

\* C32: a required prompt never fails on help and never yields an empty
\* value: what it returns is non-empty and is not the token help.  So once
\* maas_url is resolved for a target other than none, and the secret for the
\* target rack, they are such values, and after a successful init to rack the
\* stored secret is non-empty, and for every target except none the stored
\* maas_url is non-empty.
C32_PromptsYieldValues ==
    /\ \A lines \in Lines, default \in {None, DefaultUrl} :
            required_prompt(lines, default).value \notin {"", "help"}
    /\ (UrlResolved /\ inv.mode # "none") => maas_url \notin NoValue
    /\ (SecretResolved /\ inv.mode = "rack") => rpc_secret \notin NoValue
    /\ (InitEnded("ok") /\ inv.mode = "rack") =>
            secretFile \notin NoValue \cup {Absent}
    /\ (InitEnded("ok") /\ inv.mode # "none") =>
            ConfigGet(config, "maas_url") \notin NoValue

\* An init to rack has ended well with the secret that was typed and the
\* default URL, which only an empty answer at the prompt gives.
C32_Witness ==
    /\ InitEnded("ok")
    /\ inv.mode = "rack"
    /\ secretFile = UserValue
    /\ ConfigGet(config, "maas_url") = DefaultUrl

\* The mode file as a line with its newline, as an editor leaves it.
ModeLines == {"none\n", "rack\n", "region\n", "region+rack\n", "all\n"}

\* C33: the value read as the current Mode is always one of none, rack,
\* region, region+rack and all; it is none while nothing has been
\* persisted; and whenever set_current_mode(m) runs, the Mode read
\* afterwards is m.
C33_ModeStore ==
    /\ [](/\ Mode \in Modes
          /\ modeFile = Absent => Mode = "none"
          /\ \A m \in Modes : get_current_mode(set_current_mode(m)) = m
          /\ \A line \in ModeLines : get_current_mode(line) \in Modes)
    /\ [][modeFile' # modeFile \/ pc = "set_mode"
            => get_current_mode(modeFile') = inv.mode]_vars

\* The mode has been persisted twice: it reads all after having read rack.
C33_Witness ==
    /\ Mode = "all"
    /\ modeFile # Absent
    /\ inv.current_mode = "rack"
    /\ "set_current_mode" \in Range(trace)

\* The positions at which init waits for the answer to a confirmation.
Questions == {"confirm_init", "confirm_db"}

\* The question on the terminal: the generic one by the target mode, the
\* one about the database by the target mode as well.
Asking ==
    CASE pc = "confirm_init" ->
            IF inv.mode = "none" THEN "de-initialize" ELSE "initialize again"
      [] pc = "confirm_db" ->
            IF inv.mode = "all" THEN "re-initialize the database"
            ELSE "disconnect the database"
      [] OTHER -> None

Unforced == inv.current_mode # "none" /\ ~inv.force

\* Questions are asked only by an init without force of a controller whose
\* Mode is not none, and such an init starts with one.
AskedWhenUnforced ==
    /\ [](pc \in Questions => inv.cmd = "init" /\ Unforced)
    /\ [][(pc = "idle" /\ pc' # "idle" /\ inv'.cmd = "init") =>
            (pc' \in Questions <=>
                inv'.current_mode # "none" /\ ~inv'.force)]_vars

\* C34: an init with current Mode other than none and without force asks
\* exactly one confirmation question, chosen by the transition (from all to
\* all: the database is destroyed; from all to another mode: the database
\* is disconnected; otherwise the generic question), and one yes lets the
\* transition proceed; with force, or with Mode none, nothing is asked.
C34_OneQuestion ==
    /\ AskedWhenUnforced
    /\ [][(pc \in Questions) => pc' \notin Questions]_vars
    /\ [][(pc = "idle" /\ pc' \in Questions) =>
            pc' = IF inv'.current_mode = "all"
                  THEN "confirm_db" ELSE "confirm_init"]_vars

\* C34 (amended): such an init first asks the generic question (initialize
\* again, or de-initialize for the target none); when the current Mode is
\* all, a yes to it is followed by a second question about the database
\* (re-initialize it for the target all, disconnect it for another target),
\* and only a yes to every question asked lets the transition proceed; a
\* no to either ends the command with nothing changed.  With force, or
\* with Mode none, nothing is asked.
C34_QuestionsByTransition ==
    /\ AskedWhenUnforced
    /\ [](pc = "confirm_db" => inv.current_mode = "all")
    /\ [][(pc = "idle" /\ pc' \in Questions) => pc' = "confirm_init"]_vars
    /\ [][(pc = "confirm_init") =>
            \/ pc' = "idle" /\ outcome'.status = "exit0"
                  /\ UNCHANGED persistent
            \/ pc' = IF inv.current_mode = "all"
                     THEN "confirm_db" ELSE "resolve_db"]_vars
    /\ [][(pc = "confirm_db") =>
            \/ pc' = "idle" /\ outcome'.status = "exit0"
                  /\ UNCHANGED persistent
            \/ pc' = "resolve_db"]_vars

\* After a yes to the generic question, an init from all to rack asks
\* whether to disconnect the database.
C34_Witness ==
    /\ pc = "confirm_db"
    /\ inv.current_mode = "all"
    /\ inv.mode = "rack"
    /\ Asking = "disconnect the database"

\* C35: the signal handlers of run_with_drop_privileges are temporary: once
\* the child has ended and the function has returned, SIGINT and SIGTERM
\* have the disposition they had before the call, and a signal delivered to
\* the parent then does not run signal_handler, which would forward it to
\* the pid of the dead child.
C35_HandlersTemporary ==
    parent.pc = "after" => ~parent.installed /\ parent.frames = <<>>

\* The flags of `config` that the validation looks at.
ValidatedFlags == StringFlags

\* The flags given a value on the command line that the current Mode does
\* not require.
Unsupported(options, running_mode) ==
    {f \in ValidatedFlags :
        /\ options[f] \notin {None, ""}
        /\ (running_mode \notin DOMAIN required_options
                \/ f \notin required_options[running_mode])}

\* config was run with flags that change settings.
Setting(options) == ~options.render /\ ~in_config_mode(options)

\* The settings and the secret given on the command line are stored.
Applied(options) ==
    /\ \A i \in DOMAIN setting_flags :
            options[setting_flags[i]] # None =>
                ConfigGet(config', setting_flags[i]) = options[setting_flags[i]]
    /\ options.secret # None =>
            secretFile' = set_rpc_secret(secretFile, options.secret)

\* C36: `config` with setting flags, in every Mode, all included: when a
\* flag among maas_url, database_host/name/user/pass and secret is supplied
\* that the current Mode does not require, the command exits 1 before any
\* setting or the secret is modified; otherwise the supplied settings are
\* applied.
C36_ConfigFlagsValidated ==
    [][\A options \in ConfigOptions :
        (CmdConfig(options) /\ Setting(options)) =>
            IF Unsupported(options, Mode) # {}
            THEN /\ outcome'.status = "exit1"
                 /\ UNCHANGED <<config, secretFile>>
            ELSE Applied(options)]_vars

\* What holds: outside Mode all the command does as C36 says; in Mode all it
\* ends by a KeyError with nothing modified, whatever the flags.
C36_ConfigFlagsOutsideAll ==
    [][\A options \in ConfigOptions :
        (CmdConfig(options) /\ Setting(options)) =>
            IF Mode = "all"
            THEN /\ outcome' = [status |-> "fail", at |-> "KeyError"]
                 /\ UNCHANGED <<config, secretFile>>
            ELSE IF Unsupported(options, Mode) # {}
            THEN /\ outcome'.status = "exit1"
                 /\ UNCHANGED <<config, secretFile>>
            ELSE Applied(options)]_vars

\* =================================================================
\* config: the settings written and the reload
\* =================================================================
notConfig == <<mainVars, privVars, waitVars, reloadVars, workVars,
               resolverVars, commandVars,
    raceVars>>

\* The keys config_manager.update is called for by one invocation: a
\* setting flag that is given and differs from the stored value, and an
\* optional flag that differs from the configuration fetched after the
\* first loop.
written_keys(cfg, options) ==
    LET current_config == UpdateSettings(cfg, cfg, options, 1)
    IN  {setting_flags[i] : i \in
            {j \in DOMAIN setting_flags :
                /\ options[setting_flags[j]] # None
                /\ Differs(cfg, setting_flags[j], options[setting_flags[j]])}}
        \cup (IF options.num_workers # NoInt
                 /\ Differs(current_config, "num_workers", options.num_workers)
              THEN {"num_workers"} ELSE {})
        \cup (IF \/ options.enable_debug
                    /\ Differs(current_config, "debug", TRUE)
                 \/ options.disable_debug
                    /\ Differs(current_config, "debug", FALSE)
              THEN {"debug"} ELSE {})
        \cup (IF \/ options.enable_debug_queries
                    /\ Differs(current_config, "debug_queries", TRUE)
                 \/ options.disable_debug_queries
                    /\ Differs(current_config, "debug_queries", FALSE)
              THEN {"debug_queries"} ELSE {})

\* The flag combinations of this unit: a setting flag, the secret, the
\* number of workers and the two switches of debug.
EditOptions ==
    {[NoConfigOptions EXCEPT !.maas_url = url, !.secret = secret,
                             !.num_workers = workers,
                             !.enable_debug = enable,
                             !.disable_debug = disable] :
        url \in {None, UserValue}, secret \in {None, UserValue},
        workers \in {NoInt, 4}, enable \in BOOLEAN, disable \in BOOLEAN}

Edited(options, status) ==
    [options |-> options, before |-> store.config, written |-> {},
     secret_set |-> FALSE, reload |-> FALSE,
     repeated |-> (edit.status = "ok" /\ edit.options = options),
     status |-> status]

\* cmd_config.handle run by root without --render: the validation of the
\* flags, the two update loops, set_rpc_secret and restart_required.
ConfigRun(options) ==
    /\ IF in_config_mode(options)
       THEN /\ edit' = Edited(options, "print_config")
            /\ UNCHANGED store
       ELSE IF store.mode \notin DOMAIN required_options
       THEN /\ edit' = Edited(options, "KeyError")
            /\ UNCHANGED store
       ELSE IF invalid_flags(options, store.mode) # {}
       THEN /\ edit' = Edited(options, "exit1")
            /\ UNCHANGED store
       ELSE LET current_config ==
                    UpdateSettings(store.config, store.config, options, 1)
            IN  /\ store' =
                       [store EXCEPT
                           !.config = UpdateOptional(current_config, options),
                           !.secret = IF options.secret # None
                                      THEN set_rpc_secret(@, options.secret)
                                      ELSE @]
                /\ edit' =
                       [Edited(options, "ok") EXCEPT
                           !.written = written_keys(store.config, options),
                           !.secret_set = options.secret # None,
                           !.reload = restart_required(store.config, options)]
    /\ UNCHANGED notConfig

\* An init in between has moved the controller to another mode.
ConfigModeSet(mode) ==
    /\ store.mode # mode
    /\ store' = [store EXCEPT !.mode = set_current_mode(mode)]
    /\ edit' = [edit EXCEPT !.status = "none", !.repeated = FALSE]
    /\ UNCHANGED notConfig

NextConfig ==
    \/ \E options \in EditOptions : ConfigRun(options)
    \/ \E mode \in Modes : ConfigModeSet(mode)

SpecConfig == Init /\ [][NextConfig]_vars

\* The stored value of a key is not what it was before the invocation.
Changed(key) ==
    \/ (key \in DOMAIN store.config) # (key \in DOMAIN edit.before)
    \/ key \in DOMAIN store.config /\ store.config[key] # edit.before[key]

ConfigKeys == {"maas_url", "database_host", "database_name", "database_user",
               "database_pass", "num_workers", "debug", "debug_queries"}

\* Both switches of one setting were passed.
Contradictory(options) ==
    \/ options.enable_debug /\ options.disable_debug
    \/ options.enable_debug_queries /\ options.disable_debug_queries

\* What an invocation that got past the validation did, apart from its
\* being a repetition.
EditWrites ==
    /\ \A key \in ConfigKeys : Changed(key) => key \in edit.written
    /\ \A key \in edit.written :
            key \in StringFlags =>
                /\ edit.options[key] # None
                /\ Differs(edit.before, key, edit.options[key])
    /\ edit.reload <=> edit.written # {}
    /\ (edit.secret_set /\ edit.written = {}) =>
            /\ ~edit.reload
            /\ store.secret = edit.options.secret

\* C37: `config` with setting flags writes a key of the ConfigStore only
\* when the supplied value differs from the stored one, and reloads the
\* supervisor if and only if it wrote at least one key: repeating the same
\* invocation writes nothing and does not reload, and an invocation that
\* changes only the secret rewrites the secret file without a reload.
C37_WritesOnChange ==
    edit.status = "ok" =>
        /\ EditWrites
        /\ edit.repeated => edit.written = {} /\ ~edit.reload

\* The same, for the invocations that do not pass both switches of one
\* setting.
C37_WritesOnChangeUnlessContradictory ==
    edit.status = "ok" =>
        /\ EditWrites
        /\ (edit.repeated /\ ~Contradictory(edit.options)) =>
                edit.written = {} /\ ~edit.reload

\* =================================================================
\* Two inits at the same time
\* =================================================================
\* What the steps of this unit leave alone.
notRace == <<secretFile, engine, pc, inv, database_settings, maas_url,
             rpc_secret, ret, outcome, trace,
             privVars, waitVars, reloadVars, workVars, resolverVars,
             commandVars, configVars>>

\* --maas-url of each invocation.
RaceUrls == <<"http://a:5240/MAAS", "http://b:5240/MAAS">>

\* The database settings of the target mode, the flags of region and
\* region+rack being the same for both invocations.
RaceDb(mode) ==
    IF mode = "all" THEN AllModeSettings
    ELSE IF mode \in {"region", "region+rack"}
    THEN ("database_host" :> UserValue @@ "database_name" :> UserValue
          @@ "database_user" :> UserValue @@ "database_pass" :> UserValue)
    ELSE NoConfig

RaceStep(p, position) == inits' = [inits EXCEPT ![p].pc = position]

\* Variant: an init starts only while no other one is running.
RaceStart_Locked(p, mode) ==
    /\ inits[p].pc = "idle"
    /\ \A q \in Racers \ {p} : inits[q].pc \in {"idle", "ended"}
    /\ inits' = [inits EXCEPT
                    ![p] = [pc |-> AfterResolve(get_current_mode(modeFile)),
                            mode |-> mode]]
    /\ UNCHANGED <<modeFile, config, supConf, writers, notRace>>

\* `init <mode> --force` with every option given: cmd_init.handle reads the
\* mode file and takes no lock.
RaceStart(p, mode) ==
    /\ inits[p].pc = "idle"
    /\ inits' = [inits EXCEPT
                    ![p] = [pc |-> AfterResolve(get_current_mode(modeFile)),
                            mode |-> mode]]
    /\ UNCHANGED <<modeFile, config, supConf, writers, notRace>>

\* stop_services: render_supervisord("none").
RaceStop(p) ==
    /\ inits[p].pc = "stop_render"
    /\ supConf' = render_supervisord("none")
    /\ writers' = [writers EXCEPT !.plan = p]
    /\ RaceStep(p, "write_settings")
    /\ UNCHANGED <<modeFile, config, notRace>>

\* MAASConfiguration().update(settings)
RaceSettings(p) ==
    /\ inits[p].pc = "write_settings"
    /\ config' = ConfigUpdate(config, InitSettings(RaceUrls[p],
                                                   RaceDb(inits[p].mode)))
    /\ writers' = [writers EXCEPT !.settings = p]
    /\ RaceStep(p, "start_render")
    /\ UNCHANGED <<modeFile, supConf, notRace>>

\* start_services: render_supervisord(mode) ...
RaceRender(p) ==
    /\ inits[p].pc = "start_render"
    /\ supConf' = render_supervisord(inits[p].mode)
    /\ writers' = [writers EXCEPT !.plan = p]
    /\ RaceStep(p, "set_mode")
    /\ UNCHANGED <<modeFile, config, notRace>>

\* ... set_current_mode(mode); the reload and what follows write none of
\* the three, and the init ends well.
RaceSetMode(p) ==
    /\ inits[p].pc = "set_mode"
    /\ modeFile' = set_current_mode(inits[p].mode)
    /\ writers' = [writers EXCEPT !.mode = p]
    /\ RaceStep(p, "ended")
    /\ UNCHANGED <<config, supConf, notRace>>

NextRace ==
    \/ \E p \in Racers, mode \in Modes : RaceStart(p, mode)
    \/ \E p \in Racers : RaceStop(p)
    \/ \E p \in Racers : RaceSettings(p)
    \/ \E p \in Racers : RaceRender(p)
    \/ \E p \in Racers : RaceSetMode(p)

SpecRace == Init /\ [][NextRace]_vars

BothEnded == \A p \in Racers : inits[p].pc = "ended"

\* C38: the orchestrator takes no lock between processes: an init can be
\* started whatever the position of another one, and the mode file, the
\* supervisor configuration and the settings each hold what the
\* invocation that wrote them last has written.  So two inits for
\* different target modes can both end well with the persisted Mode of one
\* and the rendered supervisor plan, or the settings, of the other.
C38_InitsTakeNoLock ==
    /\ \A p \in Racers :
            inits[p].pc = "idle" =>
                ENABLED (\E mode \in Modes : RaceStart(p, mode))
    /\ writers.mode # 0 => Mode = inits[writers.mode].mode
    /\ writers.plan # 0 =>
            supConf \in {render_supervisord(inits[writers.plan].mode),
                         render_supervisord("none")}
    /\ writers.settings # 0 =>
            ConfigGet(config, "maas_url") = RaceUrls[writers.settings]

\* Both inits have ended well; the Mode is that of the first, the
\* supervisor plan and the settings are those of the second, and the plan
\* is not the plan of the Mode.
C38_Witness ==
    /\ BothEnded
    /\ inits[1].mode # inits[2].mode
    /\ writers.mode = 1
    /\ writers.plan = 2
    /\ writers.settings = 2
    /\ Mode = inits[1].mode
    /\ supConf = render_supervisord(inits[2].mode)
    /\ supConf # render_supervisord(Mode)

====
